---- MODULE Spec2Model ----
(***************************************************************************)
(* A model of the project-proposal orchestrator:                           *)
(*   - the template-driven agents of src/agents.py (intent extraction,     *)
(*     questionnaire, scope building, estimation) as driven by             *)
(*     src/main.py or called directly;                                     *)
(*   - the persistent rate card of src/backend/app/db.py;                  *)
(*   - the ReviewerAgent of src/agents.py;                                 *)
(*   - the backend orchestrator of src/backend/app/agents.py (follow-up    *)
(*     estimates, the advisory refinement, the knowledge base) and the     *)
(*     admin rate-card endpoint of src/backend/app/main.py.                *)
(*                                                                         *)
(* Texts are sequences of one-character strings, so that lower() and the   *)
(* substring test `word in text` are computed, not assumed.                *)
(*                                                                         *)
(* Numbers.  The code computes hours and costs in binary floating point.   *)
(* Here every quantity is an exact decimal, kept as an integer numerator   *)
(* over a power-of-ten denominator.  The two agree except where the exact  *)
(* value lies precisely half-way between two integers: there the double    *)
(* may land on either side (230 * 1.85 is 425.49999999999994 in Python,    *)
(* 150 * 0.15 is 22.5), so round() of an exact half is modelled as a       *)
(* choice between the two neighbouring integers.  Off the half-way points  *)
(* the values are multiples of 1/10000 at the finest, far coarser than the *)
(* floating-point error, and round() is the nearest integer.               *)
(***************************************************************************)
EXTENDS Integers, Sequences, FiniteSets, TLC

VARIABLES
    pc,              \* where the current run of the template pipeline stands
    history,         \* the agent operations this run has performed, in order
    client_input,    \* the text given to extract_intent
    intent_data,     \* the dict extract_intent returned (or a caller made)
    questions,       \* the list generate_questions returned
    answers,         \* the questionnaire answers given to build_scope
    scope,           \* the ProjectScope
    knowledge_data,  \* the dict given to estimate_project
    calc,            \* the locals of estimate_project
    estimate,        \* the Estimate
    rate_card,       \* the rate card the EstimatorAgent was constructed with
    rows,            \* the rate_card table of the database: role -> rate
    rc_call,         \* the last call on the RateCardStore and its outcome
    review,          \* the outcome of ReviewerAgent.validate_proposal
    kb,              \* the sow_kb table of the database, in insertion order
    kb_query,        \* the last _historic_insights call and what it returned
    put,             \* the PUT /api/admin/ratecard request in progress
    fu,              \* the process_followup call in progress
    advisory,        \* whether the advisory client and its API key are set
    requests,        \* how many process_followup calls have returned
    clarify,         \* the last generate_clarifying_questions call
    result,          \* what process_client_input of the command line returned
    tx               \* the update_rate_card calls in progress, by session

vars == << pc, history, client_input, intent_data, questions, answers, scope,
           knowledge_data, calc, estimate, rate_card, rows, rc_call,
           review, kb, kb_query, put, fu, advisory, requests, clarify,
           result, tx >>

pipeline_vars == << pc, history, client_input, intent_data, questions, answers,
                    scope, knowledge_data, calc, estimate, rate_card >>

store_vars == << rows, rc_call >>

review_vars == << review, result >>

backend_vars == << kb, kb_query, put, fu, advisory, requests, clarify, tx >>

\* what the template agents and the store on its own leave alone
others ==
    << review_vars, kb, kb_query, put, fu, advisory, requests, clarify, tx >>

-----------------------------------------------------------------------------
(* Bounds of the model.                                                    *)

\* the longest client text, in fragments of the vocabulary
MaxWords == 2
\* the longest missingFields list handed to generate_questions directly
MaxMissing == 3
\* the longest feature list of a ProjectScope constructed by a caller
MaxFeatures == 1
\* the most rows ingested into the knowledge base one by one
MaxRows == 6
\* the most process_followup calls of one behaviour
MaxEstimates == 1
\* the most chat transcripts ingested into the knowledge base
MaxChats == 3
\* the most integrations of a ProjectScope constructed by a caller
MaxIntegrations == 3

-----------------------------------------------------------------------------
(* Strings.                                                                *)

SeqsUpTo(S, n) == UNION { [1..k -> S] : k \in 0..n }

Range(s) == { s[i] : i \in DOMAIN s }

NoDuplicates(s) == \A i, j \in DOMAIN s : i # j => s[i] # s[j]

UpperCase ==
    <<"A","B","C","D","E","F","G","H","I","J","K","L","M",
      "N","O","P","Q","R","S","T","U","V","W","X","Y","Z">>

LowerCase ==
    <<"a","b","c","d","e","f","g","h","i","j","k","l","m",
      "n","o","p","q","r","s","t","u","v","w","x","y","z">>

\* str.lower() on one character
LowerChar(c) ==
    IF \E i \in DOMAIN UpperCase : UpperCase[i] = c
    THEN LowerCase[CHOOSE i \in DOMAIN UpperCase : UpperCase[i] = c]
    ELSE c

\* str.lower()
Lower(text) == [i \in DOMAIN text |-> LowerChar(text[i])]

\* `word in text` on strings
Contains(text, word) ==
    \E i \in 0..(Len(text) - Len(word)) :
        SubSeq(text, i + 1, i + Len(word)) = word

\* any(word in text for word in words)
ContainsAny(text, words) == \E k \in DOMAIN words : Contains(text, words[k])

-----------------------------------------------------------------------------
(* The client texts: up to MaxWords fragments joined by single spaces.     *)

W_sentence ==
    <<"W","e"," ","n","e","e","d"," ","a"," ","W","o","r","d","P","r","e","s","s"," ","s","i","t","e"," ","w","i","t","h"," ","a","p","p","o","i","n","t","m","e","n","t"," ","b","o","o","k","i","n","g"," ","a","n","d"," ","a"," ","b","l","o","g">>

W_WordPress ==
    <<"W","o","r","d","P","r","e","s","s">>

W_HubSpotCRM ==
    <<"H","u","b","S","p","o","t"," ","C","R","M">>

W_React ==
    <<"R","e","a","c","t"," ","w","e","b"," ","a","p","p">>

W_AWS ==
    <<"A","W","S"," ","h","o","s","t","i","n","g">>

W_hello ==
    <<"H","e","l","l","o">>

Fragments ==
    { W_sentence, W_WordPress, W_HubSpotCRM, W_React, W_AWS, W_hello }

RECURSIVE Join(_)
Join(ws) ==
    IF ws = <<>> THEN <<>>
    ELSE IF Len(ws) = 1 THEN ws[1]
    ELSE ws[1] \o <<" ">> \o Join(Tail(ws))

Texts == { Join(ws) : ws \in SeqsUpTo(Fragments, MaxWords) }

-----------------------------------------------------------------------------
(* IntentExtractorAgent (src/agents.py).                                   *)

ProjectTypes == { "wordpress", "web_app", "hubspot", "cloud", "unknown" }

WordpressWords ==
    << <<"w","o","r","d","p","r","e","s","s">>,
       <<"w","p">>,
       <<"c","m","s">> >>

HubspotWords ==
    << <<"h","u","b","s","p","o","t">>,
       <<"c","r","m">>,
       <<"p","o","r","t","a","l">> >>

WebAppWords ==
    << <<".","n","e","t">>,
       <<"r","e","a","c","t">>,
       <<"w","e","b"," ","a","p","p">>,
       <<"a","p","p","l","i","c","a","t","i","o","n">> >>

CloudWords ==
    << <<"a","w","s">>,
       <<"a","z","u","r","e">>,
       <<"c","l","o","u","d">>,
       <<"h","o","s","t","i","n","g">>,
       <<"c","i","/","c","d">> >>

\* _detect_project_type with its first two branches exchanged
detect_project_type_swapped(text) ==
    IF ContainsAny(text, HubspotWords) THEN "hubspot"
    ELSE IF ContainsAny(text, WordpressWords) THEN "wordpress"
    ELSE IF ContainsAny(text, WebAppWords) THEN "web_app"
    ELSE IF ContainsAny(text, CloudWords) THEN "cloud"
    ELSE "unknown"

\* the if/elif chain of _detect_project_type, on the lowercased text
detect_project_type(text) ==
    IF ContainsAny(text, WordpressWords) THEN "wordpress"
    ELSE IF ContainsAny(text, HubspotWords) THEN "hubspot"
    ELSE IF ContainsAny(text, WebAppWords) THEN "web_app"
    ELSE IF ContainsAny(text, CloudWords) THEN "cloud"
    ELSE "unknown"

\* feature_keywords, in the dict's insertion order
feature_names ==
    << "booking", "blog", "reviews", "ecommerce", "auth", "api" >>

feature_keywords ==

    << << <<"a","p","p","o","i","n","t","m","e","n","t">>,
          <<"b","o","o","k","i","n","g">>,
          <<"s","c","h","e","d","u","l","e">> >>,
       << <<"b","l","o","g">>,
          <<"a","r","t","i","c","l","e","s">>,
          <<"p","o","s","t","s">> >>,
       << <<"r","e","v","i","e","w">>,
          <<"r","a","t","i","n","g">>,
          <<"t","e","s","t","i","m","o","n","i","a","l">> >>,
       << <<"s","h","o","p">>,
          <<"s","t","o","r","e">>,
          <<"p","a","y","m","e","n","t">>,
          <<"c","a","r","t">> >>,
       << <<"l","o","g","i","n">>,
          <<"r","e","g","i","s","t","e","r">>,
          <<"a","u","t","h","e","n","t","i","c","a","t","i","o","n">> >>,
       << <<"a","p","i">>,
          <<"i","n","t","e","g","r","a","t","i","o","n">>,
          <<"c","o","n","n","e","c","t">> >> >>

\* _extract_features: one pass over feature_keywords, appending each feature
\* one of whose keywords occurs
RECURSIVE extract_features_from(_, _)
extract_features_from(text, k) ==
    IF k > Len(feature_names) THEN <<>>
    ELSE (IF ContainsAny(text, feature_keywords[k])
          THEN << feature_names[k] >> ELSE <<>>)
         \o extract_features_from(text, k + 1)

\* _extract_features appending the feature once for each keyword that occurs
RECURSIVE Flatten(_)
Flatten(ss) == IF ss = <<>> THEN <<>> ELSE Head(ss) \o Flatten(Tail(ss))

extract_features_per_keyword(text) ==
    Flatten([k \in DOMAIN feature_names |->
               Flatten([w \in DOMAIN feature_keywords[k] |->
                          IF Contains(text, feature_keywords[k][w])
                          THEN << feature_names[k] >> ELSE <<>>])])

extract_features(text) == extract_features_from(text, 1)

W_design == <<"d","e","s","i","g","n">>
W_content == <<"c","o","n","t","e","n","t">>
W_plugins == <<"p","l","u","g","i","n","s">>
W_users == <<"u","s","e","r","s">>
W_data == <<"d","a","t","a">>
W_integrations == <<"i","n","t","e","g","r","a","t","i","o","n","s">>

\* _identify_missing_info
identify_missing_info(project_type, features, text) ==
    IF project_type = "wordpress" THEN
        (IF ~Contains(text, W_design) THEN << "design_preferences" >> ELSE <<>>)
        \o (IF ~Contains(text, W_content) THEN << "content_migration" >> ELSE <<>>)
        \o (IF ~Contains(text, W_plugins) THEN << "specific_plugins" >> ELSE <<>>)
    ELSE IF project_type = "web_app" THEN
        (IF ~Contains(text, W_users) THEN << "target_users" >> ELSE <<>>)
        \o (IF ~Contains(text, W_data) THEN << "data_volume" >> ELSE <<>>)
        \o (IF ~Contains(text, W_integrations) THEN << "external_integrations" >> ELSE <<>>)
    ELSE <<>>

\* IntentExtractorAgent._calculate_confidence
intent_confidence(project_type, features) ==
    IF project_type = "unknown" THEN "low"
    ELSE IF Len(features) >= 3 THEN "high"
    ELSE IF Len(features) = 2 THEN "medium"
    ELSE "medium-low"

\* extract_intent; the "summary" string, which nothing reads, is left out
extract_intent(text) ==
    LET input_lower == Lower(text)
        project_type == detect_project_type(input_lower)
        features == extract_features(input_lower)
    IN  [ projectType |-> project_type,
          detectedFeatures |-> features,
          missingFields |-> identify_missing_info(project_type, features, input_lower),
          confidence |-> intent_confidence(project_type, features) ]

\* no intent extracted (a projectType that no extraction returns)
NoIntent ==
    [ projectType |-> "", detectedFeatures |-> <<>>, missingFields |-> <<>>,
      confidence |-> "" ]

-----------------------------------------------------------------------------
(* QuestionnaireAgent (src/agents.py).                                     *)

\* _get_base_questions
get_base_questions(project_type) ==
    IF project_type = "wordpress" THEN
        << "Do you have existing brand guidelines or design preferences?",
           "Will you need content migration from an existing website?",
           "What specific functionality do you need beyond basic pages?",
           "Do you have preferred hosting or domain setup?",
           "What's your expected timeline for launch?" >>
    ELSE IF project_type = "web_app" THEN
        << "Who are the primary users of this application?",
           "What's the expected number of concurrent users?",
           "Do you need mobile responsiveness or native mobile apps?",
           "What security requirements do you have?",
           "Are there existing systems to integrate with?" >>
    ELSE <<>>

\* the keys of the field -> question table of _get_specific_questions
MappedFields ==
    { "projectType", "features", "integrations", "platforms", "security",
      "compliance", "assumptions" }

specific_question(field) ==
    CASE field = "projectType" ->
           "What kind of project is this (e.g., web app, WordPress site, HubSpot portal)?"
      [] field = "features" ->
           "Which key features are required (e.g., booking, e-commerce, CRM)?"
      [] field = "integrations" ->
           "Are there integrations with other systems or APIs?"
      [] field = "platforms" ->
           "Which platforms should this run on (e.g., web, iOS, Android)?"
      [] field = "security" ->
           "Do you have specific security or authentication needs?"
      [] field = "compliance" ->
           "Are there compliance standards to meet (HIPAA, GDPR, etc.)?"
      [] field = "assumptions" ->
           "Any assumptions or constraints we should be aware of?"

\* _get_specific_questions
RECURSIVE get_specific_questions(_)
get_specific_questions(missing_fields) ==
    IF missing_fields = <<>> THEN <<>>
    ELSE (IF Head(missing_fields) \in MappedFields
          THEN << specific_question(Head(missing_fields)) >> ELSE <<>>)
         \o get_specific_questions(Tail(missing_fields))

\* all_questions[:7]
Take(s, n) == SubSeq(s, 1, IF Len(s) < n THEN Len(s) ELSE n)

\* generate_questions: the "questions" entry of its result
generate_questions(intent) ==
    LET all_questions == get_base_questions(intent.projectType)
                         \o get_specific_questions(intent.missingFields)
    IN  Take(all_questions, 7)

\* the missingFields lists a direct caller passes
FieldUniverse ==
    { "features", "integrations", "security", "design_preferences" }

-----------------------------------------------------------------------------
(* ScopeBuilderAgent (src/agents.py).                                      *)
(*                                                                         *)
(* The answers dict is a record of its possible entries and the set `keys` *)
(* of those that are present.                                              *)

\* answers.get(key, default)
Get(dict, key, value, default) == IF key \in dict.keys THEN value ELSE default

EmptyAnswers ==
    [ keys |-> {}, additional_features |-> <<>>, integrations |-> <<>>,
      design_preferences |-> <<>>, platforms |-> <<>>, compliance |-> "",
      assumptions |-> <<>> ]

W_mobile == <<"m","o","b","i","l","e">>
W_responsive == <<"r","e","s","p","o","n","s","i","v","e">>
W_MobileFirst == <<"M","o","b","i","l","e"," ","f","i","r","s","t">>

\* the answers dicts given to build_scope
AnswerDicts ==
    { EmptyAnswers,
      [EmptyAnswers EXCEPT !.keys = {"design_preferences"},
                           !.design_preferences = W_MobileFirst],
      [EmptyAnswers EXCEPT !.keys = {"integrations"},
                           !.integrations = << "crm" >>],
      [EmptyAnswers EXCEPT !.keys = {"integrations", "compliance"},
                           !.integrations = << "crm", "erp", "sso" >>,
                           !.compliance = "GDPR"],
      [EmptyAnswers EXCEPT !.keys = {"additional_features", "platforms", "assumptions"},
                           !.additional_features = << "blog", "contact_forms" >>,
                           !.platforms = << "iOS" >>,
                           !.assumptions = << "Client provides content." >>] }

\* the orders in which list(set(...)) may enumerate a set
Orderings(S) == { s \in [1..Cardinality(S) -> S] : Range(s) = S }

\* base_features after _compile_features extended it in place
compiled_base_features(intent, ans) ==
    IF "additional_features" \in ans.keys
    THEN intent.detectedFeatures \o ans.additional_features
    ELSE intent.detectedFeatures

\* _identify_integrations
identify_integrations(ans) == Get(ans, "integrations", ans.integrations, <<>>)

\* _determine_platforms without the ["Web"] of the last line
determine_platforms_no_default(project_type, ans) ==
    LET prefs == Lower(Get(ans, "design_preferences", ans.design_preferences, <<>>))
    IN  (IF Contains(prefs, W_mobile) \/ Contains(prefs, W_responsive)
         THEN << "Web (Responsive)" >> ELSE <<>>)
        \o Get(ans, "platforms", ans.platforms, <<>>)

\* _determine_platforms
determine_platforms(project_type, ans) ==
    LET prefs == Lower(Get(ans, "design_preferences", ans.design_preferences, <<>>))
        platforms ==
            (IF Contains(prefs, W_mobile) \/ Contains(prefs, W_responsive)
             THEN << "Web (Responsive)" >> ELSE <<>>)
            \o Get(ans, "platforms", ans.platforms, <<>>)
    IN  IF platforms # <<>> THEN platforms ELSE << "Web" >>

\* _assess_security_needs
assess_security_needs(project_type, ans) ==
    IF project_type = "web_app" THEN "standard" ELSE "basic"

\* _identify_compliance
identify_compliance(ans) == Get(ans, "compliance", ans.compliance, "")

\* _generate_assumptions
generate_assumptions(project_type, ans) ==
    Get(ans, "assumptions", ans.assumptions, << "No assumptions specified." >>)

\* build_scope; `features` is list(set(base_features)) in the order the set
\* happened to enumerate
build_scope(intent, ans, features) ==
    [ projectType |-> intent.projectType,
      features |-> features,
      integrations |-> identify_integrations(ans),
      platforms |-> determine_platforms(intent.projectType, ans),
      security |-> assess_security_needs(intent.projectType, ans),
      compliance |-> identify_compliance(ans),
      assumptions |-> generate_assumptions(intent.projectType, ans) ]

NoScope ==
    [ projectType |-> "", features |-> <<>>, integrations |-> <<>>,
      platforms |-> <<>>, security |-> "", compliance |-> "",
      assumptions |-> <<>> ]

\* the ProjectScope values a caller of estimate_project constructs itself
ScopeFeatureUniverse == { "booking", "auth" }

SecurityLevels == { "", "basic", "standard" }

ComplianceValues == { "", "GDPR" }

CallerScopes ==
    { [ projectType |-> t, features |-> f,
        integrations |-> [i \in 1..n |-> "system"],
        platforms |-> << "Web" >>, security |-> s, compliance |-> c,
        assumptions |-> <<>> ] :
      t \in ProjectTypes, f \in SeqsUpTo(ScopeFeatureUniverse, MaxFeatures),
      n \in 0..MaxIntegrations, s \in SecurityLevels, c \in ComplianceValues }

-----------------------------------------------------------------------------
(* Rounding.                                                               *)

\* whether num/den lies exactly half-way between two integers
IsTie(num, den) == 2 * (num % den) = den

\* round(num/den) for num >= 0; at an exact half the double the code holds
\* may lie on either side, and `up` says which way this one goes
Round(num, den, up) ==
    LET q == num \div den
        r == num % den
    IN  IF 2 * r < den THEN q
        ELSE IF 2 * r > den THEN q + 1
        ELSE IF up THEN q + 1 ELSE q

\* round(n, -1) on an int: to the nearest ten, an exact 5 to the even one
RoundToTens(n) ==
    LET q == n \div 10
        r == n % 10
    IN  IF r < 5 THEN 10 * q
        ELSE IF r > 5 THEN 10 * (q + 1)
        ELSE IF q % 2 = 0 THEN 10 * q ELSE 10 * (q + 1)

\* round(n, -2) on an int: to the nearest hundred, an exact 50 to the even one
RoundToHundreds(n) ==
    LET q == n \div 100
        r == n % 100
    IN  IF r < 50 THEN 100 * q
        ELSE IF r > 50 THEN 100 * (q + 1)
        ELSE IF q % 2 = 0 THEN 100 * q ELSE 100 * (q + 1)

RECURSIVE SumSeq(_)
SumSeq(s) == IF s = <<>> THEN 0 ELSE Head(s) + SumSeq(Tail(s))

-----------------------------------------------------------------------------
(* EstimatorAgent (src/agents.py).  Fractions and multipliers are in       *)
(* hundredths, total_hours in hundredths of an hour, role and phase hours  *)
(* and costs in ten-thousandths.                                           *)

TemplateTypes == { "wordpress", "web_app", "hubspot", "cloud" }

\* project_templates[t]["base_hours"]
template_base_hours(t) ==
    CASE t = "wordpress" -> 80
      [] t = "web_app" -> 120
      [] t = "hubspot" -> 100
      [] t = "cloud" -> 40

\* project_templates[t]["team_composition"], in insertion order
template_team_composition(t) ==
    CASE t = "wordpress" ->
           << [role |-> "Project Manager", pct |-> 15],
              [role |-> "WordPress Developer", pct |-> 60],
              [role |-> "UI/UX Designer", pct |-> 25] >>
      [] t = "web_app" ->
           << [role |-> "Project Manager", pct |-> 12],
              [role |-> "Frontend Dev", pct |-> 35],
              [role |-> "Backend Dev", pct |-> 40],
              [role |-> "QA Engineer", pct |-> 13] >>
      [] t = "hubspot" ->
           << [role |-> "Project Manager", pct |-> 10],
              [role |-> "HubSpot Developer", pct |-> 70],
              [role |-> "QA Engineer", pct |-> 20] >>
      [] t = "cloud" ->
           << [role |-> "Project Manager", pct |-> 10],
              [role |-> "DevOps Engineer", pct |-> 70],
              [role |-> "Cloud Architect", pct |-> 20] >>

\* project_templates[t]["features"].get(f, {}).get("hours", 0)
template_feature_hours(t, f) ==
    CASE t = "wordpress" /\ f = "booking" -> 40
      [] t = "wordpress" /\ f = "blog" -> 20
      [] t = "wordpress" /\ f = "reviews" -> 25
      [] t = "wordpress" /\ f = "ecommerce" -> 60
      [] t = "wordpress" /\ f = "contact_forms" -> 15
      [] t = "web_app" /\ f = "auth" -> 40
      [] t = "web_app" /\ f = "crud" -> 60
      [] t = "web_app" /\ f = "reports" -> 50
      [] t = "web_app" /\ f = "api" -> 45
      [] t = "hubspot" /\ f = "crm_setup" -> 40
      [] t = "hubspot" /\ f = "portal" -> 80
      [] t = "hubspot" /\ f = "integration" -> 60
      [] t = "cloud" /\ f = "ci_cd" -> 30
      [] t = "cloud" /\ f = "monitoring" -> 25
      [] t = "cloud" /\ f = "backup" -> 20
      [] OTHER -> 0

\* _calculate_base_hours
calculate_base_hours(s) ==
    IF s.projectType \in TemplateTypes
    THEN template_base_hours(s.projectType) ELSE 100

\* _calculate_feature_hours with every feature counted as 10 hours
calculate_feature_hours_flat(features, project_type) == 10 * Len(features)

\* _calculate_feature_hours
calculate_feature_hours(features, project_type) ==
    SumSeq([i \in DOMAIN features |->
              IF project_type \in TemplateTypes
              THEN template_feature_hours(project_type, features[i]) ELSE 0])

\* _calculate_integration_hours
calculate_integration_hours(integrations) ==
    IF integrations = <<>> THEN 0 ELSE Len(integrations) * 10

\* the multiplier of _apply_complexity_factors with every security level
\* that is set counted, "basic" too
complexity_multiplier_any_security(s) ==
    100
    + (IF s.integrations # <<>> THEN Len(s.integrations) * 10 ELSE 0)
    + (IF s.security # "" THEN 20 ELSE 0)
    + (IF s.compliance # "" THEN 30 ELSE 0)
    + 15

\* the multiplier of _apply_complexity_factors with compliance counted as 0.2
complexity_multiplier_compliance20(s) ==
    100
    + (IF s.integrations # <<>> THEN Len(s.integrations) * 10 ELSE 0)
    + (IF s.security # "" /\ s.security # "basic" THEN 20 ELSE 0)
    + (IF s.compliance # "" THEN 20 ELSE 0)
    + 15

\* complexity_multiplier as _apply_complexity_factors builds it, in hundredths
complexity_multiplier(s) ==
    100
    + (IF s.integrations # <<>> THEN Len(s.integrations) * 10 ELSE 0)
    + (IF s.security # "" /\ s.security # "basic" THEN 20 ELSE 0)
    + (IF s.compliance # "" THEN 30 ELSE 0)
    + 15

\* _apply_complexity_factors: hours * complexity_multiplier, in hundredths
apply_complexity_factors(hours, s) == hours * complexity_multiplier(s)

\* self.rate_card.get(role, 85)
rate_of(card, role) == IF role \in DOMAIN card THEN card[role] ELSE 85

\* one entry of the list _determine_team_composition returns:
\* role_hours = total_hours * percentage, cost = role_hours * rate, both
\* rounded only when stored
role_allocation(total_hours, card, member, i, up) ==
    LET role_hours == total_hours * member.pct
        rate == rate_of(card, member.role)
        cost == role_hours * rate
    IN  [ name |-> member.role,
          hours |-> Round(role_hours, 10000, << "role_hours", i >> \in up),
          rate |-> rate,
          cost |-> Round(cost, 10000, << "role_cost", i >> \in up) ]

\* template.get("team_composition", {})
team_composition(s) ==
    IF s.projectType \in TemplateTypes
    THEN template_team_composition(s.projectType) ELSE <<>>

\* _determine_team_composition
determine_team_composition(total_hours, s, card, up) ==
    LET members == team_composition(s)
    IN  [i \in DOMAIN members |->
           role_allocation(total_hours, card, members[i], i, up)]

\* phase_distributions[t], in insertion order
phase_distribution(t) ==
    CASE t = "wordpress" ->
           << [phase |-> "Discovery & Planning", pct |-> 10],
              [phase |-> "Design", pct |-> 25],
              [phase |-> "Development", pct |-> 45],
              [phase |-> "Testing", pct |-> 15],
              [phase |-> "Deployment", pct |-> 5] >>
      [] t = "hubspot" ->
           << [phase |-> "Discovery & Planning", pct |-> 15],
              [phase |-> "Configuration", pct |-> 35],
              [phase |-> "Development", pct |-> 30],
              [phase |-> "Testing", pct |-> 15],
              [phase |-> "Training", pct |-> 5] >>
      [] t = "cloud" ->
           << [phase |-> "Planning", pct |-> 20],
              [phase |-> "Implementation", pct |-> 50],
              [phase |-> "Testing", pct |-> 20],
              [phase |-> "Documentation", pct |-> 10] >>
      [] OTHER ->
           \* web_app, and the default of phase_distributions.get
           << [phase |-> "Discovery & Planning", pct |-> 15],
              [phase |-> "Design", pct |-> 20],
              [phase |-> "Development", pct |-> 40],
              [phase |-> "Testing", pct |-> 20],
              [phase |-> "Deployment", pct |-> 5] >>

\* sum(self.rate_card.values()) and len(self.rate_card)
RECURSIVE SumRates(_, _)
SumRates(card, R) ==
    IF R = {} THEN 0
    ELSE LET r == CHOOSE x \in R : TRUE
         IN  card[r] + SumRates(card, R \ {r})

\* round(phase_hours * avg_rate), avg_rate = rate_sum / rate_count and
\* phase_hours in ten-thousandths; the whole hours and the remainder are
\* multiplied apart to keep the products small
phase_cost_parts(phase_hours, rate_sum, rate_count) ==
    LET a == phase_hours \div 10000
        b == phase_hours % 10000
    IN  [ whole |-> (a * rate_sum) \div rate_count,
          num |-> ((a * rate_sum) % rate_count) * 10000 + b * rate_sum,
          den |-> 10000 * rate_count ]

phase_cost(phase_hours, rate_sum, rate_count, up) ==
    LET p == phase_cost_parts(phase_hours, rate_sum, rate_count)
    IN  p.whole + Round(p.num, p.den, up)

\* one entry of the list _calculate_phases returns, with the hours truncated
phase_allocation_truncated(total_hours, rate_sum, rate_count, entry, i, up) ==
    LET phase_hours == total_hours * entry.pct
    IN  [ phase |-> entry.phase,
          hours |-> phase_hours \div 10000,
          cost |-> phase_cost(phase_hours, rate_sum, rate_count,
                              << "phase_cost", i >> \in up) ]

\* one entry of the list _calculate_phases returns
phase_allocation(total_hours, rate_sum, rate_count, entry, i, up) ==
    LET phase_hours == total_hours * entry.pct
    IN  [ phase |-> entry.phase,
          hours |-> Round(phase_hours, 10000, << "phase_hours", i >> \in up),
          cost |-> phase_cost(phase_hours, rate_sum, rate_count,
                              << "phase_cost", i >> \in up) ]

\* _calculate_phases
calculate_phases(total_hours, s, card, up) ==
    LET distribution == phase_distribution(s.projectType)
        rate_sum == SumRates(card, DOMAIN card)
        rate_count == Cardinality(DOMAIN card)
    IN  [i \in DOMAIN distribution |->
           phase_allocation(total_hours, rate_sum, rate_count,
                            distribution[i], i, up)]

\* _calculate_total_cost
calculate_total_cost(roles) == SumSeq([i \in DOMAIN roles |-> roles[i].cost])

\* knowledge_data: a dict that may hold "similarity_score", here in tenths
NoKnowledge == [ keys |-> {}, similarity_score |-> 0 ]

SimilarityScores == { 0, 10 }

KnowledgeDicts ==
    { NoKnowledge } \cup
    { [ keys |-> {"similarity_score"}, similarity_score |-> x ] :
      x \in SimilarityScores }

\* the sum of the four confidence_factors of _calculate_confidence, in tenths
confidence_sum(s, kd) ==
    (IF s.features # <<>> THEN 8 ELSE 3)
    + 7
    + Get(kd, "similarity_score", kd.similarity_score, 5)
    + (IF Len(s.integrations) > 2 THEN 6 ELSE 8)

\* _calculate_confidence with 0.6 for two or more integrations
calculate_confidence_two_integrations(s, kd, total_hours) ==
    LET sum == (IF s.features # <<>> THEN 8 ELSE 3) + 7
               + Get(kd, "similarity_score", kd.similarity_score, 5)
               + (IF Len(s.integrations) >= 2 THEN 6 ELSE 8)
    IN  IF sum >= 32 THEN << "P90", 10 >>
        ELSE IF sum >= 28 THEN << "P80", 15 >>
        ELSE IF sum >= 24 THEN << "P70", 20 >>
        ELSE << "P50", 30 >>

\* _calculate_confidence with the level P60 of the reviewer's list in the
\* third branch
calculate_confidence_p60(s, kd, total_hours) ==
    LET sum == confidence_sum(s, kd)
    IN  IF sum >= 32 THEN << "P90", 10 >>
        ELSE IF sum >= 28 THEN << "P80", 15 >>
        ELSE IF sum >= 24 THEN << "P60", 20 >>
        ELSE << "P50", 30 >>

\* _calculate_confidence: avg_confidence = sum / 4 against 0.8, 0.7, 0.6,
\* that is the sum in tenths against 32, 28, 24; the variance in hundredths
calculate_confidence(s, kd, total_hours) ==
    LET sum == confidence_sum(s, kd)
    IN  IF sum >= 32 THEN << "P90", 10 >>
        ELSE IF sum >= 28 THEN << "P80", 15 >>
        ELSE IF sum >= 24 THEN << "P70", 20 >>
        ELSE << "P50", 30 >>

\* the locals of estimate_project up to total_hours
estimate_locals(s) ==
    LET base_hours == calculate_base_hours(s)
        feature_hours == calculate_feature_hours(s.features, s.projectType)
        integration_hours == calculate_integration_hours(s.integrations)
        total_raw_hours == base_hours + feature_hours + integration_hours
    IN  [ base_hours |-> base_hours,
          feature_hours |-> feature_hours,
          integration_hours |-> integration_hours,
          total_raw_hours |-> total_raw_hours,
          complexity_multiplier |-> complexity_multiplier(s),
          total_hours |-> apply_complexity_factors(total_raw_hours, s) ]

NoCalc ==
    [ base_hours |-> 0, feature_hours |-> 0, integration_hours |-> 0,
      total_raw_hours |-> 0, complexity_multiplier |-> 0, total_hours |-> 0 ]

\* estimate_project: the Estimate it returns; `up` holds the rounding sites
\* that go up should their value be an exact half
estimate_project(s, kd, card, up) ==
    LET total_hours == estimate_locals(s).total_hours
        roles == determine_team_composition(total_hours, s, card, up)
        phases == calculate_phases(total_hours, s, card, up)
        total_cost == calculate_total_cost(roles)
        confidence == calculate_confidence(s, kd, total_hours)
    IN  [ roles |-> roles,
          phases |-> phases,
          totalHours |-> Round(total_hours, 100, << "total_hours", 0 >> \in up),
          totalCost |-> RoundToHundreds(total_cost),
          confidence |-> confidence[1],
          variance |-> confidence[2] ]

NoEstimate ==
    [ roles |-> <<>>, phases |-> <<>>, totalHours |-> 0, totalCost |-> 0,
      confidence |-> "", variance |-> 0 ]

\* the rounding sites of estimate_project whose value is an exact half
TieSites(s, card) ==
    LET total_hours == estimate_locals(s).total_hours
        members == team_composition(s)
        distribution == phase_distribution(s.projectType)
        rate_sum == SumRates(card, DOMAIN card)
        rate_count == Cardinality(DOMAIN card)
    IN  (IF IsTie(total_hours, 100) THEN { << "total_hours", 0 >> } ELSE {})
        \cup { << "role_hours", i >> : i \in
                 { j \in DOMAIN members :
                     IsTie(total_hours * members[j].pct, 10000) } }
        \cup { << "role_cost", i >> : i \in
                 { j \in DOMAIN members :
                     IsTie(total_hours * members[j].pct
                           * rate_of(card, members[j].role), 10000) } }
        \cup { << "phase_hours", i >> : i \in
                 { j \in DOMAIN distribution :
                     IsTie(total_hours * distribution[j].pct, 10000) } }
        \cup { << "phase_cost", i >> : i \in
                 { j \in DOMAIN distribution :
                     LET p == phase_cost_parts(total_hours * distribution[j].pct,
                                               rate_sum, rate_count)
                     IN  IsTie(p.num, p.den) } }

\* _initialize_rate_card of src/main.py
InitialRateCard ==
    [ r \in { "Frontend Dev", "Backend Dev", "Full Stack Dev",
              "DevOps Engineer", "Project Manager", "QA Engineer",
              "UI/UX Designer", "WordPress Developer", "HubSpot Developer",
              "Cloud Architect" } |->
        CASE r = "Frontend Dev" -> 85
          [] r = "Backend Dev" -> 95
          [] r = "Full Stack Dev" -> 90
          [] r = "DevOps Engineer" -> 105
          [] r = "Project Manager" -> 90
          [] r = "QA Engineer" -> 75
          [] r = "UI/UX Designer" -> 85
          [] r = "WordPress Developer" -> 80
          [] r = "HubSpot Developer" -> 95
          [] r = "Cloud Architect" -> 110 ]

\* a rate card that lacks most roles of the templates
SparseRateCard == [ r \in { "Project Manager" } |-> 100 ]

\* the rate cards an EstimatorAgent is constructed with
RateCards == { InitialRateCard, SparseRateCard }

-----------------------------------------------------------------------------
(* RateCardStore (src/backend/app/db.py).                                  *)

DEFAULT_RATE_CARD ==
    [ r \in { "Software Developer", "Senior Software Developer",
              "Software Architect", "WordPress Developer", "Project Manager",
              "Cloud Architect / DevOps Engineer" } |->
        CASE r = "Software Developer" -> 80
          [] r = "Senior Software Developer" -> 120
          [] r = "Software Architect" -> 150
          [] r = "WordPress Developer" -> 70
          [] r = "Project Manager" -> 95
          [] r = "Cloud Architect / DevOps Engineer" -> 140 ]

EmptyCard == [ r \in {} |-> 0 ]

\* the payloads of update_rate_card: a dict role -> rate, and the roles
\* whose value float() does not accept (a word, None)
PayloadRoles == { "Project Manager", "Software Developer", "Intern" }

PayloadRates == { 70, 100 }

Payloads ==
    UNION { { [ card |-> c, not_numbers |-> b ] : b \in SUBSET DOMAIN c } :
            c \in UNION { [R -> PayloadRates] : R \in SUBSET PayloadRoles } }

\* get_rate_card without the default card: the rows as a dict
store_get_rate_card_rows_only(table) == table

\* get_rate_card: the rows as a dict, the default card when there is none
store_get_rate_card(table) ==
    IF DOMAIN table = {} THEN DEFAULT_RATE_CARD ELSE table

\* update_rate_card with the deletion of the other roles left out
store_update_rate_card_upsert_only(table, new_card) ==
    [ r \in DOMAIN table \cup DOMAIN new_card |->
        IF r \in DOMAIN new_card THEN new_card[r] ELSE table[r] ]

\* update_rate_card when no float(rate) raises: the table after the commit.
\* The session does not autoflush, so the query for existing_roles sees the
\* table without the added rows; the DELETE runs at once, the updates and
\* inserts are flushed by the commit
store_update_rate_card(table, new_card) ==
    LET existing_roles == DOMAIN table
        to_delete == existing_roles \ DOMAIN new_card
        after_delete == [ r \in DOMAIN table \ to_delete |-> table[r] ]
    IN  [ r \in DOMAIN after_delete \cup DOMAIN new_card |->
            IF r \in DOMAIN new_card THEN new_card[r] ELSE after_delete[r] ]

NoCall ==
    [ op |-> "none", payload |-> [ card |-> EmptyCard, not_numbers |-> {} ],
      before |-> EmptyCard, raised |-> FALSE, result |-> EmptyCard ]

-----------------------------------------------------------------------------
(* The admin rate-card endpoint (src/backend/app/main.py) and              *)
(* DevelopmentProposalOrchestrator.update_rate_card                        *)
(* (src/backend/app/agents.py).                                            *)

\* the set `canonical` of update_rate_card
CanonicalRoles ==
    { "Software Developer", "Senior Software Developer", "Software Architect",
      "WordPress Developer", "Project Manager",
      "Cloud Architect / DevOps Engineer" }

\* the first step of the endpoint: store.update_rate_card(card) on the
\* payload as it came, inside a try that swallows what float(rate) raises
endpoint_store_update(table, p) ==
    IF p.not_numbers # {} THEN table
    ELSE store_update_rate_card(table, p.card)

\* DevelopmentProposalOrchestrator.update_rate_card: the canonical roles of
\* the payload replace the stored card, unless there is none of them or
\* float() raises on one of them
orchestrator_update_rate_card(table, p) ==
    LET kept == DOMAIN p.card \cap CanonicalRoles
        filtered == [ r \in kept |-> p.card[r] ]
    IN  IF kept \cap p.not_numbers # {} THEN table
        ELSE IF kept = {} THEN table
        ELSE store_update_rate_card(table, filtered)

NoPut ==
    [ pc |-> "idle", served |-> FALSE, payload |-> NoCall.payload,
      response |-> EmptyCard ]

-----------------------------------------------------------------------------
(* The knowledge base: SowKnowledgeStore (src/backend/app/db.py) and       *)
(* _historic_insights (src/backend/app/agents.py).  Prices and costs of    *)
(* the backend are in cents.                                               *)

FEATURE_KEYWORD_NAMES ==
    { "auth", "login", "signup", "payment", "ecommerce", "shop", "cart",
      "checkout", "api", "integration", "crm", "hubspot", "reports",
      "dashboard", "analytics", "admin", "upload", "download", "image",
      "media", "wordpress", "blog", "search", "video", "stream",
      "newsletter", "billing", "account", "profile", "map", "zip" }

\* the spelling of each keyword, a character at a time
FEATURE_KEYWORDS ==
    [ k \in FEATURE_KEYWORD_NAMES |->
        CASE k = "auth" -> <<"a","u","t","h">>
          [] k = "login" -> <<"l","o","g","i","n">>
          [] k = "signup" -> <<"s","i","g","n","u","p">>
          [] k = "payment" -> <<"p","a","y","m","e","n","t">>
          [] k = "ecommerce" -> <<"e","c","o","m","m","e","r","c","e">>
          [] k = "shop" -> <<"s","h","o","p">>
          [] k = "cart" -> <<"c","a","r","t">>
          [] k = "checkout" -> <<"c","h","e","c","k","o","u","t">>
          [] k = "api" -> <<"a","p","i">>
          [] k = "integration" -> <<"i","n","t","e","g","r","a","t","i","o","n">>
          [] k = "crm" -> <<"c","r","m">>
          [] k = "hubspot" -> <<"h","u","b","s","p","o","t">>
          [] k = "reports" -> <<"r","e","p","o","r","t","s">>
          [] k = "dashboard" -> <<"d","a","s","h","b","o","a","r","d">>
          [] k = "analytics" -> <<"a","n","a","l","y","t","i","c","s">>
          [] k = "admin" -> <<"a","d","m","i","n">>
          [] k = "upload" -> <<"u","p","l","o","a","d">>
          [] k = "download" -> <<"d","o","w","n","l","o","a","d">>
          [] k = "image" -> <<"i","m","a","g","e">>
          [] k = "media" -> <<"m","e","d","i","a">>
          [] k = "wordpress" -> <<"w","o","r","d","p","r","e","s","s">>
          [] k = "blog" -> <<"b","l","o","g">>
          [] k = "search" -> <<"s","e","a","r","c","h">>
          [] k = "video" -> <<"v","i","d","e","o">>
          [] k = "stream" -> <<"s","t","r","e","a","m">>
          [] k = "newsletter" -> <<"n","e","w","s","l","e","t","t","e","r">>
          [] k = "billing" -> <<"b","i","l","l","i","n","g">>
          [] k = "account" -> <<"a","c","c","o","u","n","t">>
          [] k = "profile" -> <<"p","r","o","f","i","l","e">>
          [] k = "map" -> <<"m","a","p">>
          [] k = "zip" -> <<"z","i","p">> ]

\* DevelopmentProposalOrchestrator._extract_features: the keywords found in
\* the lowercased text; sorted(set(found)) is one list per set
backend_extract_features(text) ==
    LET found(lowered) ==
            { k \in FEATURE_KEYWORD_NAMES : Contains(lowered, FEATURE_KEYWORDS[k]) }
    IN  CHOOSE features \in { found(lowered) : lowered \in { Lower(text) } } : TRUE

\* insert as a replacement of the table by the new row
kb_insert_latest_only(table, features, final_price, chat) ==
    << [ id |-> 1, features |-> features, final_price |-> final_price,
         chat |-> chat ] >>

\* SowKnowledgeStore.insert: a new row, with the next id.  Of the metadata
\* a row keeps what _historic_insights reads: the texts of the bot messages
\* of metadata["chat"] that end with a question mark, in their order.
kb_insert(table, features, final_price, chat) ==
    Append(table, [ id |-> Len(table) + 1, features |-> features,
                    final_price |-> final_price, chat |-> chat ])

\* ingest_sow of a record without its price
ingest_sow_without_price(table, features, final_price, chat, store_up) ==
    IF store_up THEN kb_insert(table, features, 0, chat) ELSE table

\* ingest_sow: insert, and whatever insert raises is swallowed
ingest_sow(table, features, final_price, chat, store_up) ==
    IF store_up THEN kb_insert(table, features, final_price, chat) ELSE table

\* ingest_chat: the features of the combined text of the messages, the
\* amount found in the last bot message that holds one (0.0 when none), and
\* the transcript as metadata["chat"]
ingest_chat(table, transcript, store_up) ==
    ingest_sow(table, backend_extract_features(transcript.text),
               transcript.final_price, transcript.bot_questions, store_up)

\* all_rows of _historic_insights with the failure of get_all() let through
historic_all_rows_unguarded(table, store_up) == table

\* all_rows of _historic_insights: get_all(), [] when it raises
historic_all_rows(table, store_up) == IF store_up THEN table ELSE <<>>

\* len(set(features).intersection(set(past_feats)))
overlap(features, r) == Cardinality(features \cap r.features)

\* avg_final_price, as the sum and the number of the prices of all the rows
\* that have one; None is a count of 0
historic_prices(all_rows) ==
    LET priced == SelectSeq(all_rows, LAMBDA r : r.final_price # 0)
    IN  [ sum |-> SumSeq([i \in DOMAIN priced |-> priced[i].final_price]),
          count |-> Len(priced) ]

\* the same average over the rows that share a feature with the request
historic_prices_of_similar(all_rows, features) ==
    LET priced == SelectSeq(all_rows, LAMBDA r : r.final_price # 0
                                                  /\ overlap(features, r) > 0)
    IN  [ sum |-> SumSeq([i \in DOMAIN priced |-> priced[i].final_price]),
          count |-> Len(priced) ]

\* scores left in the order of all_rows
scores_in_insertion_order(all_rows, features) == all_rows

\* scores.sort(key=overlap, reverse=True): the sort is stable, rows of equal
\* overlap stay in the order of all_rows
sorted_by_overlap(all_rows, features) ==
    LET before(j, i) ==
            \/ overlap(features, all_rows[j]) > overlap(features, all_rows[i])
            \/ /\ overlap(features, all_rows[j]) = overlap(features, all_rows[i])
               /\ j < i
        rank(i) == Cardinality({ j \in DOMAIN all_rows : before(j, i) }) + 1
    IN  [ k \in DOMAIN all_rows |->
            all_rows[CHOOSE i \in DOMAIN all_rows : rank(i) = k] ]

\* similar_projects: [r for s, r in scores if s > 0][:5]
similar_projects(all_rows, features) ==
    Take(SelectSeq(sorted_by_overlap(all_rows, features),
                   LAMBDA r : overlap(features, r) > 0), 5)

\* the bot questions of the chats of the similar rows, one after the other
RECURSIVE questions_of(_)
questions_of(similar) ==
    IF similar = <<>> THEN <<>>
    ELSE Head(similar).chat \o questions_of(Tail(similar))

\* q_counter over a list of questions: each question with its count, in
\* the order of first occurrence
counted(all) ==
    LET first == SelectSeq([ i \in DOMAIN all |-> i ],
                           LAMBDA i : \A j \in 1..(i - 1) : all[j] # all[i])
    IN  [ k \in DOMAIN first |->
            [ q |-> all[first[k]],
              cnt |-> Cardinality({ j \in DOMAIN all : all[j] = all[first[k]] }) ] ]

\* q_counter of _historic_insights
common_questions(similar) ==
    CHOOSE counter \in { counted(all) : all \in { questions_of(similar) } } : TRUE

\* q_counter.most_common(n): by count, the first counted first among equals
most_common(counter, n) ==
    LET before(j, i) ==
            \/ counter[j].cnt > counter[i].cnt
            \/ counter[j].cnt = counter[i].cnt /\ j < i
        rank(i) == Cardinality({ j \in DOMAIN counter : before(j, i) }) + 1
    IN  Take([ k \in DOMAIN counter |->
                 counter[CHOOSE i \in DOMAIN counter : rank(i) = k] ], n)

\* _historic_insights
historic_insights(table, features, store_up) ==
    LET all_rows == historic_all_rows(table, store_up)
        insights(similar) ==
            [ features |-> features,
              similar_projects |-> similar,
              avg_final_price |-> historic_prices(all_rows),
              common_questions |-> common_questions(similar) ]
    IN  CHOOSE hist \in { insights(similar) :
                            similar \in { similar_projects(all_rows, features) } } :
            TRUE

NoQuery ==
    [ features |-> {}, similar_projects |-> <<>>,
      avg_final_price |-> [ sum |-> 0, count |-> 0 ],
      common_questions |-> <<>> ]

\* generate_clarifying_questions: the questions asked whatever the text
Q_timeframe == "What's the target launch timeframe (rough)?"

Q_users == "Who are the primary users of this product?"

Q_features ==
    "Which core features must be included (e.g. auth, payments, search, user profiles)?"

Q_payments ==
    "Will payments be processed on the site? Which provider (Stripe, PayPal, other)?"

Q_integrations ==
    "Please list any third-party systems you must integrate with (CRM, payment, identity)."

Q_content == "Who will provide content (text/images)?"

Q_budget == "Do you have a preferred budget range or ballpark figure?"

\* base_questions before the historical ones are added
clarifying_base_questions(features) ==
    << Q_timeframe, Q_users, Q_features >>
    \o (IF features \cap { "payment", "ecommerce", "shop", "checkout", "cart" } # {}
        THEN << Q_payments >> ELSE <<>>)
    \o (IF features \cap { "api", "integration", "crm", "hubspot" } # {}
        THEN << Q_integrations >> ELSE <<>>)
    \o << Q_content, Q_budget >>

\* generate_clarifying_questions with every common question appended
generate_clarifying_questions_all_common(text, table, store_up) ==
    LET final(features, common) ==
            clarifying_base_questions(features)
            \o [ k \in DOMAIN common |-> common[k].q ]
        final_of(features) ==
            { Take(final(features, most_common(hist.common_questions, 3)), 6) :
              hist \in { historic_insights(table, features, store_up) } }
    IN  CHOOSE qs \in UNION { final_of(features) :
                  features \in { backend_extract_features(text) } } : TRUE

\* generate_clarifying_questions on the knowledge base as it is
generate_clarifying_questions(text, table, store_up) ==
    LET final(features, common) ==
            clarifying_base_questions(features)
            \o SelectSeq([ k \in DOMAIN common |-> common[k].q ],
                         LAMBDA q : q \notin Range(clarifying_base_questions(features)))
        final_of(features) ==
            { Take(final(features, most_common(hist.common_questions, 3)), 6) :
              hist \in { historic_insights(table, features, store_up) } }
    IN  CHOOSE qs \in UNION { final_of(features) :
                  features \in { backend_extract_features(text) } } : TRUE

NoClarify == [ called |-> FALSE, features |-> {}, questions |-> <<>> ]

\* no call of _historic_insights yet; ingested tells that the last ingest
\* stored its row, which is then the last row of the table
NoHistoricCall ==
    [ called |-> FALSE, ingested |-> FALSE, store_up |-> TRUE,
      result |-> NoQuery ]

-----------------------------------------------------------------------------
(* process_followup and _call_openai_refine (src/backend/app/agents.py).   *)
(* Fractions are in hundredths, waits in tenths of a second, money in      *)
(* cents.                                                                  *)

\* role_fracs, in the order of the dict
role_fracs ==
    << [ role |-> "Software Developer", pct |-> 50 ],
       [ role |-> "Senior Software Developer", pct |-> 18 ],
       [ role |-> "Software Architect", pct |-> 6 ],
       [ role |-> "WordPress Developer", pct |-> 12 ],
       [ role |-> "Project Manager", pct |-> 8 ],
       [ role |-> "Cloud Architect / DevOps Engineer", pct |-> 6 ] >>

\* An answer of the client is kept as what process_followup takes from it:
\* whether "integrat" occurs in its question or its answer, and the number
\* of non-blank parts of the answer between commas, semicolons and newlines.
extra_integrations(ans) ==
    SumSeq([ i \in DOMAIN ans |->
               IF ans[i].integrat /\ ans[i].parts > 1
               THEN ans[i].parts - 1 ELSE 0 ])

\* total_hours without the minimum of 20
followup_total_hours_no_floor(features, ans) ==
    40 + Cardinality(features) * 12 + extra_integrations(ans) * 10
    - Len(ans) * 3

\* total_hours: int(math.ceil(max(20, total_hours_calc)))
followup_total_hours(features, ans) ==
    LET base_hours == 40
        feature_hours == Cardinality(features) * 12
        clarity_reduction == Len(ans) * 3
        integration_hours == extra_integrations(ans) * 10
        total_hours_calc == base_hours + feature_hours + integration_hours
                            - clarity_reduction
    IN  IF total_hours_calc < 20 THEN 20 ELSE total_hours_calc

\* DevelopmentProposalOrchestrator.get_rate_card: the stored card, the
\* built-in one when the store raises
orchestrator_get_rate_card(table, store_up) ==
    LET got == store_get_rate_card(table)
    IN  IF ~store_up THEN DEFAULT_RATE_CARD
        ELSE IF DOMAIN got = {} THEN EmptyCard ELSE got

\* rate_card after the loop that gives every missing role of role_fracs 90.0
with_missing_roles(card) ==
    [ r \in DOMAIN card \cup CanonicalRoles |->
        IF r \in DOMAIN card THEN card[r] ELSE 90 ]

\* the rate of a role read again from the table as it is now
role_rate_refreshed(snapshot, table_now, role) ==
    with_missing_roles(store_get_rate_card(table_now))[role]

\* float(rate_card.get(role, 90.0)): rate_card is the local dict read once
role_rate(snapshot, table_now, role) ==
    IF role \in DOMAIN snapshot THEN snapshot[role] ELSE 90

\* int(round(total_hours * frac)): total_hours * 0.5 is exact in binary, so
\* its half goes to the even integer; any other half either way
followup_role_hours(total_hours, pct, up) ==
    IF pct = 50
    THEN Round(total_hours * pct, 100, (total_hours * pct) \div 100 % 2 = 1)
    ELSE Round(total_hours * pct, 100, up)

\* breakdown[role] with the hours that keep the cost of the role at what
\* the rate 90.0 gives
followup_role_entry_fixed_budget(total_hours, member, rate, up) ==
    LET hrs == Round(total_hours * member.pct * 90, 100 * rate, up)
    IN  [ role |-> member.role, hours |-> hrs, rate |-> rate,
          cost |-> hrs * rate * 100 ]

\* breakdown[role]
followup_role_entry(total_hours, member, rate, up) ==
    LET hrs == followup_role_hours(total_hours, member.pct, up)
    IN  [ role |-> member.role, hours |-> hrs, rate |-> rate,
          cost |-> hrs * rate * 100 ]

\* what the advisory service may do on one call: raise (a timeout, an API
\* error), answer with no JSON object, with one of the wrong shape, or with
\* one that fits the schema
AdvisoryReplies ==
    { [ kind |-> "raises", adjusted_total_cost |-> 0 ],
      [ kind |-> "not_json", adjusted_total_cost |-> 0 ],
      [ kind |-> "wrong_schema", adjusted_total_cost |-> 0 ],
      [ kind |-> "valid", adjusted_total_cost |-> 500000 ] }

NoneResponse == [ none |-> TRUE, adjusted_total_cost |-> 0 ]

\* one pass through the try block of _call_openai_refine: the call raises,
\* or json.loads raises, or the parsed object reaches `if jsonschema:`, a
\* name the module neither imports nor defines, which raises NameError
refine_attempt(reply) ==
    CASE reply.kind = "raises" -> [ raised |-> TRUE, parsed |-> NoneResponse ]
      [] reply.kind = "not_json" -> [ raised |-> TRUE, parsed |-> NoneResponse ]
      [] OTHER -> [ raised |-> TRUE, parsed |-> NoneResponse ]

\* the sleep counted from the attempt to come, not from the one that failed
refine_backoff_next_attempt(attempts) == 5 * (attempts + 1)

\* time.sleep(backoff * attempts), in tenths of a second
refine_backoff(attempts) == 5 * attempts

\* round(raw_total_cost * 0.6 + avg_hist_price * 0.4, 2)
historical_blend(raw_total_cost, avg, up) ==
    Round(60 * raw_total_cost * avg.count + 40 * avg.sum, 100 * avg.count, up)

\* adjusted_total_cost without the historical smoothing
adjusted_total_cost_unblended(raw_total_cost, ml_resp, avg, up) ==
    IF ~ml_resp.none /\ ml_resp.adjusted_total_cost # 0
    THEN ml_resp.adjusted_total_cost
    ELSE raw_total_cost

\* adjusted_total_cost: the advisory figure when there is one, else the
\* blend with the historical average when there is one, else the raw cost
adjusted_total_cost(raw_total_cost, ml_resp, avg, up) ==
    IF ~ml_resp.none
    THEN IF ml_resp.adjusted_total_cost # 0
         THEN ml_resp.adjusted_total_cost ELSE raw_total_cost
    ELSE IF avg.count > 0 /\ avg.sum # 0
         THEN historical_blend(raw_total_cost, avg, up)
         ELSE raw_total_cost

NoResult ==
    [ status |-> "", totalHours |-> 0, totalCost |-> 0, breakdown |-> <<>> ]

NoFollowup ==
    [ pc |-> "idle", text |-> <<>>, features |-> {}, answers |-> <<>>,
      total_hours |-> 0,
      rate_card |-> EmptyCard, table_read |-> EmptyCard, read_ok |-> TRUE,
      breakdown |-> <<>>, raw_total_cost |-> 0,
      attempts |-> 0, calls |-> 0, sleeps |-> <<>>, replies |-> {},
      ml_resp |-> NoneResponse,
      hist |-> NoQuery, hist_ok |-> TRUE, adjusted_total_cost |-> 0,
      write_ok |-> TRUE, result |-> NoResult ]

-----------------------------------------------------------------------------
(* ReviewerAgent (src/agents.py).                                          *)

\* the spelling of the feature names a ProjectScope is given here
Spelling(feature) ==
    CASE feature = "TBD checkout" ->
             <<"T","B","D"," ","c","h","e","c","k","o","u","t">>
      [] feature = "booking" -> <<"b","o","o","k","i","n","g">>
      [] feature = "blog" -> <<"b","l","o","g">>
      [] feature = "auth" -> <<"a","u","t","h">>
      [] OTHER -> <<>>

W_TBD == <<"T","B","D">>

\* any("TBD" in feature for feature in scope.features)
has_undefined_features(features) ==
    \E i \in DOMAIN features : Contains(Spelling(features[i]), W_TBD)

\* sum(role["rate"] for role in estimate.roles)
sum_of_rates(roles) == SumSeq([ i \in DOMAIN roles |-> roles[i].rate ])

\* _has_pricing_anomaly divides by len(estimate.roles) and by avg_rate
pricing_anomaly_raises(roles) == roles = <<>> \/ sum_of_rates(roles) = 0

\* abs(role_rate - avg_rate) / avg_rate, compared with 0.5, for one role:
\* role_rate = cost / max(hours, 1), avg_rate = sum_of_rates / len(roles)
deviation_times_two(roles, i) ==
    LET h == IF roles[i].hours > 1 THEN roles[i].hours ELSE 1
        d == roles[i].cost * Len(roles) - sum_of_rates(roles) * h
    IN  [ num |-> 2 * (IF d < 0 THEN -d ELSE d),
          den |-> sum_of_rates(roles) * h ]

\* _has_pricing_anomaly with each role held against its own rate
has_pricing_anomaly_own_rate(roles, at_half) ==
    \E i \in DOMAIN roles :
        LET h == IF roles[i].hours > 1 THEN roles[i].hours ELSE 1
            d == roles[i].cost - roles[i].rate * h
        IN  2 * (IF d < 0 THEN -d ELSE d) > roles[i].rate * h

\* _has_pricing_anomaly when it does not raise; a deviation of exactly 0.5
\* may come out on either side in floating point
has_pricing_anomaly(roles, at_half) ==
    \E i \in DOMAIN roles :
        LET x == deviation_times_two(roles, i)
        IN  x.num > x.den \/ (x.num = x.den /\ at_half)

W_LowConfidence == "Low confidence estimate - requires PM review"

W_UndefinedFeatures == "Undefined features in scope"

W_PricingAnomaly == "Pricing anomaly detected"

\* validate_proposal
validate_proposal(s, e, at_half) ==
    LET issues ==
            (IF e.confidence \in { "P50", "P60" }
             THEN << W_LowConfidence >> ELSE <<>>)
            \o (IF has_undefined_features(s.features)
                THEN << W_UndefinedFeatures >> ELSE <<>>)
            \o (IF has_pricing_anomaly(e.roles, at_half)
                THEN << W_PricingAnomaly >> ELSE <<>>)
    IN  IF pricing_anomaly_raises(e.roles)
        THEN [ raised |-> TRUE, approved |-> FALSE, issues |-> <<>> ]
        ELSE [ raised |-> FALSE, approved |-> Len(issues) = 0,
               issues |-> issues ]

NoReview == [ raised |-> FALSE, approved |-> FALSE, issues |-> <<>> ]

\* a rate card with one rate far from the others
SkewedRateCard == "Project Manager" :> 300

ReviewRateCards == { InitialRateCard, SkewedRateCard }

ReviewFeatureUniverse == { "booking", "TBD checkout" }

\* the scopes given to estimate_project and validate_proposal
ReviewScopes ==
    { [ projectType |-> t, features |-> f, integrations |-> <<>>,
        platforms |-> << "Web" >>, security |-> "basic", compliance |-> "",
        assumptions |-> <<>> ] :
      t \in { "wordpress", "web_app", "unknown" },
      f \in SeqsUpTo(ReviewFeatureUniverse, MaxFeatures) }

-----------------------------------------------------------------------------
(* The initial state of the backend: an empty knowledge base, nothing in   *)
(* progress.                                                               *)

\* the threads that serve requests, each with a session of its own
Sessions == { "A", "B" }

\* a session that update_rate_card has not opened
NoSession ==
    [ pc |-> "idle", payload |-> <<>>, next |-> 1, loaded |-> EmptyCard,
      added |-> {}, to_delete |-> {}, gone |-> {} ]

NoSessions == [ s \in Sessions |-> NoSession ]

BackendInit ==
    /\ review = NoReview
    /\ kb = <<>>
    /\ kb_query = NoHistoricCall
    /\ put = NoPut
    /\ fu = NoFollowup
    /\ advisory = FALSE
    /\ requests = 0
    /\ clarify = NoClarify
    /\ tx = NoSessions

-----------------------------------------------------------------------------
(* The template pipeline: the agents called one after the other, as        *)
(* process_client_input of src/main.py does, or by a caller that makes the *)
(* intent dict or the ProjectScope itself.                                 *)

\* nothing returned yet
NoReturn == [ status |-> "", review_issues |-> <<>>, synced |-> FALSE ]

PipelineInit ==
    /\ pc = "idle"
    /\ history = <<>>
    /\ client_input = <<>>
    /\ intent_data = NoIntent
    /\ questions = <<>>
    /\ answers = EmptyAnswers
    /\ scope = NoScope
    /\ knowledge_data = NoKnowledge
    /\ calc = NoCalc
    /\ estimate = NoEstimate
    /\ result = NoReturn

StoreInit ==
    /\ rows = DEFAULT_RATE_CARD
    /\ rc_call = NoCall

\* IntentExtractorAgent.extract_intent(text)
ExtractIntent(text) ==
    /\ pc = "idle"
    /\ pc' = "intent"
    /\ history' = Append(history, "extract_intent")
    /\ client_input' = text
    /\ intent_data' = extract_intent(text)
    /\ UNCHANGED << questions, answers, scope, knowledge_data, calc, estimate,
                    rate_card >>

\* a caller makes the intent dict itself
GiveIntent(project_type, missing_fields) ==
    /\ pc = "idle"
    /\ pc' = "intent"
    /\ history' = Append(history, "given_intent")
    /\ intent_data' = [ projectType |-> project_type,
                        detectedFeatures |-> <<>>,
                        missingFields |-> missing_fields,
                        confidence |-> "low" ]
    /\ UNCHANGED << client_input, questions, answers, scope, knowledge_data,
                    calc, estimate, rate_card >>

\* QuestionnaireAgent.generate_questions(intent_data)
GenerateQuestions ==
    /\ pc = "intent"
    /\ pc' = "asked"
    /\ history' = Append(history, "generate_questions")
    /\ questions' = generate_questions(intent_data)
    /\ UNCHANGED << client_input, intent_data, answers, scope, knowledge_data,
                    calc, estimate, rate_card >>

\* ScopeBuilderAgent.build_scope(intent_data, questionnaire_answers), called
\* with or without the questions having been generated first;
\* _compile_features extends intent_data["detectedFeatures"] in place
BuildScope(ans) ==
    /\ pc \in { "intent", "asked" }
    /\ pc' = "scoped"
    /\ history' = Append(history, "build_scope")
    /\ answers' = ans
    /\ LET base_features == compiled_base_features(intent_data, ans)
       IN  /\ intent_data' = [intent_data EXCEPT !.detectedFeatures = base_features]
           /\ \E features \in Orderings(Range(base_features)) :
                 scope' = build_scope(intent_data, ans, features)
    /\ UNCHANGED << client_input, questions, knowledge_data, calc, estimate,
                    rate_card >>

\* a caller constructs the ProjectScope itself
MakeScope(s) ==
    /\ pc = "idle"
    /\ pc' = "scoped"
    /\ history' = Append(history, "given_scope")
    /\ scope' = s
    /\ UNCHANGED << client_input, intent_data, questions, answers,
                    knowledge_data, calc, estimate, rate_card >>

\* EstimatorAgent.estimate_project(scope, knowledge_data)
EstimateProject(kd) ==
    /\ pc = "scoped"
    /\ pc' = "estimated"
    /\ history' = Append(history, "estimate_project")
    /\ knowledge_data' = kd
    /\ calc' = estimate_locals(scope)
    /\ \E up \in SUBSET TieSites(scope, rate_card) :
          estimate' = estimate_project(scope, kd, rate_card, up)
    /\ UNCHANGED << client_input, intent_data, questions, answers, scope,
                    rate_card >>

\* the run is over; the next one starts afresh with the same agents
NextRun ==
    /\ pc \in { "asked", "estimated", "reviewed" }
    /\ pc' = "idle"
    /\ history' = <<>>
    /\ client_input' = <<>>
    /\ intent_data' = NoIntent
    /\ questions' = <<>>
    /\ answers' = EmptyAnswers
    /\ scope' = NoScope
    /\ knowledge_data' = NoKnowledge
    /\ calc' = NoCalc
    /\ estimate' = NoEstimate
    /\ UNCHANGED rate_card

\* the agents run on a client text, with the rate card of src/main.py
Init ==
    /\ PipelineInit
    /\ rate_card = InitialRateCard
    /\ StoreInit
    /\ BackendInit

Next ==
    \/ \E text \in Texts : ExtractIntent(text) /\ UNCHANGED << store_vars, others >>
    \/ GenerateQuestions /\ UNCHANGED << store_vars, others >>
    \/ \E ans \in AnswerDicts : BuildScope(ans) /\ UNCHANGED << store_vars, others >>
    \/ \E kd \in KnowledgeDicts : EstimateProject(kd) /\ UNCHANGED << store_vars, others >>
    \/ NextRun /\ UNCHANGED << store_vars, others >>

Spec == Init /\ [][Next]_vars

\* generate_questions called on intent dicts of any project type and any
\* missingFields
QuestionnaireNext ==
    \/ \E t \in ProjectTypes, mf \in SeqsUpTo(FieldUniverse, MaxMissing) :
          GiveIntent(t, mf) /\ UNCHANGED << store_vars, others >>
    \/ GenerateQuestions /\ UNCHANGED << store_vars, others >>
    \/ NextRun /\ UNCHANGED << store_vars, others >>

QuestionnaireSpec == Init /\ [][QuestionnaireNext]_vars

\* estimate_project called on ProjectScope values of any content, by an
\* EstimatorAgent constructed with either rate card
EstimatorInit ==
    /\ PipelineInit
    /\ rate_card \in RateCards
    /\ StoreInit
    /\ BackendInit

EstimatorNext ==
    \/ \E s \in CallerScopes : MakeScope(s) /\ UNCHANGED << store_vars, others >>
    \/ \E kd \in KnowledgeDicts : EstimateProject(kd) /\ UNCHANGED << store_vars, others >>
    \/ NextRun /\ UNCHANGED << store_vars, others >>

EstimatorSpec == EstimatorInit /\ [][EstimatorNext]_vars

-----------------------------------------------------------------------------
(* The rate card store on its own: calls of get_rate_card and              *)
(* update_rate_card, one at a time.                                        *)

\* RateCardStore.get_rate_card()
StoreGetRateCard ==
    /\ rc_call' = [ op |-> "get",
                    payload |-> NoCall.payload,
                    before |-> rows,
                    raised |-> FALSE,
                    result |-> store_get_rate_card(rows) ]
    /\ UNCHANGED rows

\* RateCardStore.update_rate_card(new_card): float(rate) raises on a value
\* that is no number, the session is closed without a commit and the table
\* is as before
StoreUpdateRateCard(p) ==
    LET raises == p.not_numbers # {}
    IN  /\ rows' = IF raises THEN rows ELSE store_update_rate_card(rows, p.card)
        /\ rc_call' = [ op |-> "update",
                        payload |-> p,
                        before |-> rows,
                        raised |-> raises,
                        result |-> EmptyCard ]

\* DevelopmentProposalOrchestrator.get_rate_card(), the store answering or
\* raising
OrchestratorGetRateCard(store_up) ==
    /\ rc_call' = [ op |-> "orchestrator_get",
                    payload |-> NoCall.payload,
                    before |-> rows,
                    raised |-> ~store_up,
                    result |-> orchestrator_get_rate_card(rows, store_up) ]
    /\ UNCHANGED rows

StoreNext ==
    \/ StoreGetRateCard /\ UNCHANGED << pipeline_vars, others >>
    \/ \E store_up \in BOOLEAN :
          OrchestratorGetRateCard(store_up) /\ UNCHANGED << pipeline_vars, others >>
    \/ \E p \in Payloads : StoreUpdateRateCard(p) /\ UNCHANGED << pipeline_vars, others >>

StoreSpec == Init /\ [][StoreNext]_vars

-----------------------------------------------------------------------------
(* The reviewer after the estimator: estimate_project on a scope, then     *)
(* validate_proposal on the scope and the estimate, as steps 4 and 6 of    *)
(* process_client_input do.                                                *)

\* ReviewerAgent.validate_proposal(scope, estimate)
ValidateProposal ==
    /\ pc = "estimated"
    /\ pc' = "reviewed"
    /\ history' = Append(history, "validate_proposal")
    /\ \E at_half \in BOOLEAN :
          review' = validate_proposal(scope, estimate, at_half)
    /\ UNCHANGED << client_input, intent_data, questions, answers, scope,
                    knowledge_data, calc, estimate, rate_card >>

ReviewInit ==
    /\ PipelineInit
    /\ rate_card \in ReviewRateCards
    /\ StoreInit
    /\ BackendInit

ReviewNext ==
    \/ \E s \in ReviewScopes : MakeScope(s) /\ UNCHANGED << store_vars, others >>
    \/ \E kd \in KnowledgeDicts : EstimateProject(kd) /\ UNCHANGED << store_vars, others >>
    \/ ValidateProposal /\ UNCHANGED << store_vars, backend_vars, result >>
    \/ NextRun /\ review' = NoReview
       /\ UNCHANGED << store_vars, backend_vars, result >>

ReviewSpec == ReviewInit /\ [][ReviewNext]_vars

-----------------------------------------------------------------------------
(* process_client_input of the command line (src/main.py): the agents one  *)
(* after the other, the review deciding between the two returns.           *)

\* step 4: estimate_project(scope, {})
CliEstimate == EstimateProject(NoKnowledge)

\* step 5: generate_sow(scope, estimate, client_info), a text made of the
\* fields of the scope and the estimate, which it leaves as they are
GenerateSow ==
    /\ pc = "estimated"
    /\ pc' = "sow"
    /\ history' = Append(history, "generate_sow")
    /\ UNCHANGED << client_input, intent_data, questions, answers, scope,
                    knowledge_data, calc, estimate, rate_card, review, result >>

\* step 6: validate_proposal(scope, estimate); what it raises leaves
\* process_client_input before anything is returned
CliReview ==
    /\ pc = "sow"
    /\ history' = Append(history, "validate_proposal")
    /\ \E at_half \in BOOLEAN :
          review' = validate_proposal(scope, estimate, at_half)
    /\ pc' = IF review'.raised THEN "raised" ELSE "reviewed"
    /\ UNCHANGED << client_input, intent_data, questions, answers, scope,
                    knowledge_data, calc, estimate, rate_card, result >>

\* going on to step 7 whenever the review returned
goes_on_when_reviewed(review_result) == ~review_result.raised

\* whether process_client_input goes on to step 7
goes_on_to_sync(review_result) == review_result.approved

\* if not review_result["approved"]: return {"status": "requires_review", ...}
ReturnRequiresReview ==
    /\ pc = "reviewed"
    /\ ~goes_on_to_sync(review)
    /\ pc' = "returned"
    /\ result' = [ status |-> "requires_review",
                   review_issues |-> review.issues,
                   synced |-> FALSE ]
    /\ UNCHANGED << history, client_input, intent_data, questions, answers,
                    scope, knowledge_data, calc, estimate, rate_card, review >>

\* step 7: sync_to_crm(...), reached when the review approved
SyncToCrm ==
    /\ pc = "reviewed"
    /\ goes_on_to_sync(review)
    /\ pc' = "synced"
    /\ history' = Append(history, "sync_to_crm")
    /\ UNCHANGED << client_input, intent_data, questions, answers, scope,
                    knowledge_data, calc, estimate, rate_card, review, result >>

\* return {"status": "completed", ..., "hubspotRecord": ...}
ReturnCompleted ==
    /\ pc = "synced"
    /\ pc' = "returned"
    /\ result' = [ status |-> "completed", review_issues |-> <<>>,
                   synced |-> TRUE ]
    /\ UNCHANGED << history, client_input, intent_data, questions, answers,
                    scope, knowledge_data, calc, estimate, rate_card, review >>

\* the next call of process_client_input
CliNextRun ==
    /\ pc \in { "returned", "raised" }
    /\ pc' = "idle"
    /\ history' = <<>>
    /\ client_input' = <<>>
    /\ intent_data' = NoIntent
    /\ questions' = <<>>
    /\ answers' = EmptyAnswers
    /\ scope' = NoScope
    /\ knowledge_data' = NoKnowledge
    /\ calc' = NoCalc
    /\ estimate' = NoEstimate
    /\ review' = NoReview
    /\ result' = NoReturn
    /\ UNCHANGED rate_card

CliInit ==
    /\ PipelineInit
    /\ rate_card = InitialRateCard
    /\ StoreInit
    /\ BackendInit

CliNext ==
    \/ \E text \in Texts : ExtractIntent(text) /\ UNCHANGED << store_vars, others >>
    \/ GenerateQuestions /\ UNCHANGED << store_vars, others >>
    \/ \E ans \in AnswerDicts : BuildScope(ans) /\ UNCHANGED << store_vars, others >>
    \/ CliEstimate /\ UNCHANGED << store_vars, others >>
    \/ GenerateSow /\ UNCHANGED << store_vars, backend_vars >>
    \/ CliReview /\ UNCHANGED << store_vars, backend_vars >>
    \/ ReturnRequiresReview /\ UNCHANGED << store_vars, backend_vars >>
    \/ SyncToCrm /\ UNCHANGED << store_vars, backend_vars >>
    \/ ReturnCompleted /\ UNCHANGED << store_vars, backend_vars >>
    \/ CliNextRun /\ UNCHANGED << store_vars, backend_vars >>

CliSpec == CliInit /\ [][CliNext]_vars

------------------------------------------------------------------------------
(* PUT /api/admin/ratecard: the store is updated with the payload as it    *)
(* came, then the orchestrator is notified, then the stored card is read   *)
(* for the response.  Each is a transaction of its own on the database.    *)

\* store.update_rate_card(card), whatever it raises swallowed
PutStore(p) ==
    /\ put.pc = "idle"
    /\ rows' = endpoint_store_update(rows, p)
    /\ put' = [ pc |-> "stored", served |-> FALSE, payload |-> p,
                response |-> EmptyCard ]
    /\ UNCHANGED rc_call

\* orchestrator.update_rate_card(card)
PutNotify ==
    /\ put.pc = "stored"
    /\ rows' = orchestrator_update_rate_card(rows, put.payload)
    /\ put' = [put EXCEPT !.pc = "notified"]
    /\ UNCHANGED rc_call

\* current = store.get_rate_card(); return {"status": "ok", "rates": current}
PutRespond ==
    /\ put.pc = "notified"
    /\ put' = [put EXCEPT !.pc = "idle", !.served = TRUE,
                          !.response = store_get_rate_card(rows)]
    /\ UNCHANGED << rows, rc_call >>

\* what the endpoint leaves alone, the follow-up in progress apart
beside_put ==
    << pipeline_vars, review_vars, kb, kb_query, advisory, requests, clarify,
       tx >>

AdminNext ==
    \/ \E p \in Payloads : PutStore(p) /\ UNCHANGED << beside_put, fu >>
    \/ PutNotify /\ UNCHANGED << beside_put, fu >>
    \/ PutRespond /\ UNCHANGED << beside_put, fu >>

AdminSpec == Init /\ [][AdminNext]_vars

-----------------------------------------------------------------------------
(* The knowledge base on its own: records ingested one after the other,    *)
(* and _historic_insights called on a feature list.                        *)

\* the records ingested: two SOWs with a price, a chat without
IngestedRecords ==
    { [ features |-> { "auth" }, final_price |-> 100000 ],
      [ features |-> { "auth", "blog" }, final_price |-> 120000 ],
      [ features |-> {}, final_price |-> 0 ] }

QueriedFeatures == { { "auth" }, { "auth", "blog" }, { "crm" } }

\* ingest_sow(parsed, metadata)
IngestSow(parsed, store_up) ==
    /\ Len(kb) < MaxRows
    /\ kb' = ingest_sow(kb, parsed.features, parsed.final_price, <<>>, store_up)
    /\ kb_query' = [NoHistoricCall EXCEPT !.ingested = store_up]

\* _historic_insights(features)
HistoricInsights(features, store_up) ==
    /\ kb_query' = [ called |-> TRUE, ingested |-> kb_query.ingested,
                     store_up |-> store_up,
                     result |-> historic_insights(kb, features, store_up) ]
    /\ UNCHANGED kb

beside_kb ==
    << pipeline_vars, store_vars, review_vars, put, fu, advisory, requests,
       clarify, tx >>

KnowledgeNext ==
    \/ \E parsed \in IngestedRecords, store_up \in BOOLEAN :
          IngestSow(parsed, store_up) /\ UNCHANGED beside_kb
    \/ \E features \in QueriedFeatures, store_up \in BOOLEAN :
          HistoricInsights(features, store_up) /\ UNCHANGED beside_kb

KnowledgeSpec == Init /\ [][KnowledgeNext]_vars

-----------------------------------------------------------------------------
(* Chats ingested into the knowledge base, and the clarifying questions    *)
(* asked on a new text.                                                    *)

W_ShopWithCRM == <<"S","h","o","p"," ","w","i","t","h"," ","C","R","M">>

Q_multilingual == "Do you need multilingual support?"

Q_brand == "Is there an existing brand guide?"

Q_hosting == "Who will host the site?"

\* A transcript is kept as what ingest_chat and _historic_insights take from
\* it: the combined text of its messages, the texts of its bot messages
\* that end with a question mark, and the amount the regular expression
\* finds in its bot messages (0 when none).
Transcripts ==
    { [ text |-> W_WordPress, bot_questions |-> << Q_users, Q_multilingual >>,
        final_price |-> 0 ],
      [ text |-> W_WordPress,
        bot_questions |-> << Q_hosting, Q_brand, Q_multilingual, Q_hosting >>,
        final_price |-> 250000 ],
      [ text |-> W_hello, bot_questions |-> << Q_brand >>, final_price |-> 0 ] }

ClarifiedTexts == { W_hello, W_WordPress, W_HubSpotCRM, W_ShopWithCRM }

\* ingest_chat(messages, metadata)
IngestChat(transcript, store_up) ==
    /\ Len(kb) < MaxChats
    /\ kb' = ingest_chat(kb, transcript, store_up)
    /\ UNCHANGED clarify

\* generate_clarifying_questions(text, client_info)
GenerateClarifyingQuestions(text, store_up) ==
    /\ clarify' = [ called |-> TRUE,
                    features |-> backend_extract_features(text),
                    questions |-> generate_clarifying_questions(text, kb, store_up) ]
    /\ UNCHANGED kb

beside_questions ==
    << pipeline_vars, store_vars, review_vars, kb_query, put, fu, advisory,
       requests, tx >>

QuestionsNext ==
    \/ \E transcript \in Transcripts, store_up \in BOOLEAN :
          IngestChat(transcript, store_up) /\ UNCHANGED beside_questions
    \/ \E text \in ClarifiedTexts, store_up \in BOOLEAN :
          GenerateClarifyingQuestions(text, store_up) /\ UNCHANGED beside_questions

QuestionsSpec == Init /\ [][QuestionsNext]_vars

-----------------------------------------------------------------------------
(* process_followup, a step for each access to the database and each call  *)
(* of the advisory service.                                                *)

FollowupTexts == { W_sentence, W_HubSpotCRM, W_hello }

FollowupAnswers ==
    { <<>>,
      << [ integrat |-> TRUE, parts |-> 3 ] >>,
      << [ integrat |-> FALSE, parts |-> 1 ],
         [ integrat |-> FALSE, parts |-> 1 ] >>,
      [ i \in 1..7 |-> [ integrat |-> FALSE, parts |-> 1 ] ] }

\* lines 194-227: the hours, then rate_card = self.get_rate_card() and the
\* 90.0 for the roles it lacks
FollowupReadCard(text, ans, store_up) ==
    /\ fu.pc = "idle"
    /\ requests < MaxEstimates
    /\ LET features == backend_extract_features(text)
       IN  fu' = [NoFollowup EXCEPT
                    !.pc = "costing",
                    !.text = text,
                    !.features = features,
                    !.answers = ans,
                    !.total_hours = followup_total_hours(features, ans),
                    !.rate_card = with_missing_roles(
                                      orchestrator_get_rate_card(rows, store_up)),
                    !.table_read = rows,
                    !.read_ok = store_up]
    /\ UNCHANGED << kb, requests >>

\* lines 232-237: one turn of the loop over role_fracs
FollowupRoleCost ==
    /\ fu.pc = "costing"
    /\ LET i == Len(fu.breakdown) + 1
           member == role_fracs[i]
           rate == role_rate(fu.rate_card, rows, member.role)
       IN  \E up \in BOOLEAN :
              LET entry == followup_role_entry(fu.total_hours, member, rate, up)
              IN  fu' = [fu EXCEPT
                           !.breakdown = Append(@, entry),
                           !.raw_total_cost = @ + entry.cost,
                           !.pc = IF i = Len(role_fracs)
                                  THEN "refine" ELSE "costing"]
    /\ UNCHANGED << kb, requests >>

\* _call_openai_refine without the client or the key: return None
RefineSkip ==
    /\ fu.pc = "refine"
    /\ ~advisory
    /\ fu' = [fu EXCEPT !.pc = "history", !.ml_resp = NoneResponse]
    /\ UNCHANGED << kb, requests >>

\* one turn of the while loop of _call_openai_refine: a call of the
\* service, then the return of the parsed object, or the sleep before the
\* next turn, or the return of None after the third
RefineAttempt(reply) ==
    /\ fu.pc = "refine"
    /\ advisory
    /\ fu.attempts < 3
    /\ LET attempts == fu.attempts + 1
           out == refine_attempt(reply)
       IN  fu' = [fu EXCEPT
                    !.attempts = attempts,
                    !.calls = @ + 1,
                    !.replies = @ \cup { reply.kind },
                    !.ml_resp = IF out.raised THEN NoneResponse ELSE out.parsed,
                    !.sleeps = IF out.raised /\ attempts < 3
                               THEN Append(@, refine_backoff(attempts)) ELSE @,
                    !.pc = IF out.raised /\ attempts < 3
                           THEN "refine" ELSE "history"]
    /\ UNCHANGED << kb, requests >>

\* lines 240-255: the advisory figure, or _historic_insights and the blend
FollowupHistory(store_up) ==
    /\ fu.pc = "history"
    /\ LET hist == IF fu.ml_resp.none
                   THEN historic_insights(kb, fu.features, store_up)
                   ELSE NoQuery
       IN  \E up \in BOOLEAN :
              fu' = [fu EXCEPT
                       !.pc = "persist",
                       !.hist = hist,
                       !.hist_ok = store_up,
                       !.adjusted_total_cost =
                           adjusted_total_cost(fu.raw_total_cost, fu.ml_resp,
                                               hist.avg_final_price, up)]
    /\ UNCHANGED << kb, requests >>

\* lines 280-292: the estimate is ingested into the knowledge base, and the
\* result is built
FollowupPersist(store_up) ==
    /\ fu.pc = "persist"
    /\ kb' = ingest_sow(kb, fu.features, fu.adjusted_total_cost, <<>>, store_up)
    /\ fu' = [fu EXCEPT
                !.pc = "done",
                !.write_ok = store_up,
                !.result = [ status |-> "completed",
                             totalHours |-> fu.total_hours,
                             totalCost |-> fu.adjusted_total_cost,
                             breakdown |-> fu.breakdown ]]
    /\ UNCHANGED requests

\* the result has gone to the caller; the next request may come
FollowupReturn ==
    /\ fu.pc = "done"
    /\ fu' = NoFollowup
    /\ requests' = requests + 1
    /\ UNCHANGED kb

beside_followup ==
    << pipeline_vars, store_vars, review_vars, kb_query, advisory, clarify,
       tx >>

\* the knowledge bases a follow-up may find
InitialKbs ==
    { <<>>,
      << [ id |-> 1, features |-> { "crm" }, final_price |-> 1000000,
           chat |-> <<>> ] >>,
      << [ id |-> 1, features |-> { "blog" }, final_price |-> 0,
           chat |-> <<>> ] >>,
      << [ id |-> 1, features |-> { "blog" }, final_price |-> 800000,
           chat |-> <<>> ],
         [ id |-> 2, features |-> { "crm" }, final_price |-> 1000000,
           chat |-> <<>> ] >> }

FollowupInit ==
    /\ PipelineInit
    /\ rate_card = InitialRateCard
    /\ StoreInit
    /\ review = NoReview
    /\ kb \in InitialKbs
    /\ kb_query = NoHistoricCall
    /\ put = NoPut
    /\ fu = NoFollowup
    /\ advisory \in BOOLEAN
    /\ requests = 0
    /\ clarify = NoClarify
    /\ tx = NoSessions

FollowupNext ==
    \/ \E text \in FollowupTexts, ans \in FollowupAnswers, store_up \in BOOLEAN :
          FollowupReadCard(text, ans, store_up) /\ UNCHANGED << beside_followup, put >>
    \/ FollowupRoleCost /\ UNCHANGED << beside_followup, put >>
    \/ RefineSkip /\ UNCHANGED << beside_followup, put >>
    \/ \E reply \in AdvisoryReplies :
          RefineAttempt(reply) /\ UNCHANGED << beside_followup, put >>
    \/ \E store_up \in BOOLEAN :
          FollowupHistory(store_up) /\ UNCHANGED << beside_followup, put >>
    \/ \E store_up \in BOOLEAN :
          FollowupPersist(store_up) /\ UNCHANGED << beside_followup, put >>
    \/ FollowupReturn /\ UNCHANGED << beside_followup, put >>

FollowupSpec == FollowupInit /\ [][FollowupNext]_vars

\* One request at a time on one text, each step taken once it can be: the
\* interpreter runs process_followup on, and every call of the advisory
\* service returns or raises.
RefineNext ==
    \/ \E store_up \in BOOLEAN :
          FollowupReadCard(W_hello, <<>>, store_up) /\ UNCHANGED << beside_followup, put >>
    \/ FollowupRoleCost /\ UNCHANGED << beside_followup, put >>
    \/ RefineSkip /\ UNCHANGED << beside_followup, put >>
    \/ \E reply \in AdvisoryReplies :
          RefineAttempt(reply) /\ UNCHANGED << beside_followup, put >>
    \/ \E store_up \in BOOLEAN :
          FollowupHistory(store_up) /\ UNCHANGED << beside_followup, put >>
    \/ \E store_up \in BOOLEAN :
          FollowupPersist(store_up) /\ UNCHANGED << beside_followup, put >>
    \/ FollowupReturn /\ UNCHANGED << beside_followup, put >>

RefineFairSpec == FollowupInit /\ [][RefineNext]_vars /\ WF_vars(RefineNext)

-----------------------------------------------------------------------------
(* process_followup on the same texts and answers with different rate      *)
(* cards stored, different knowledge bases, and the advisory service set   *)
(* up or not.                                                              *)

\* the rate_card tables a follow-up may find: the seeded one, and one with
\* other rates and roles
HoursTables ==
    { DEFAULT_RATE_CARD,
      "Software Developer" :> 100 @@ "Project Manager" :> 70 @@ "Intern" :> 70 }

\* the knowledge bases it may find: none, and one with a price
HoursKbs ==
    { <<>>,
      << [ id |-> 1, features |-> { "crm" }, final_price |-> 1000000,
           chat |-> <<>> ] >> }

HoursTexts == { W_hello, W_HubSpotCRM }

\* no answer, one that names three integrations, and five plain ones, which
\* bring total_hours of a text without features to 25
HoursAnswers ==
    { <<>>,
      << [ integrat |-> TRUE, parts |-> 3 ] >>,
      [ i \in 1..5 |-> [ integrat |-> FALSE, parts |-> 1 ] ] }

HoursInit ==
    /\ PipelineInit
    /\ rate_card = InitialRateCard
    /\ rows \in HoursTables
    /\ rc_call = NoCall
    /\ review = NoReview
    /\ kb \in HoursKbs
    /\ kb_query = NoHistoricCall
    /\ put = NoPut
    /\ fu = NoFollowup
    /\ advisory \in BOOLEAN
    /\ requests = 0
    /\ clarify = NoClarify
    /\ tx = NoSessions

HoursNext ==
    \/ \E text \in HoursTexts, ans \in HoursAnswers, store_up \in BOOLEAN :
          FollowupReadCard(text, ans, store_up) /\ UNCHANGED << beside_followup, put >>
    \/ FollowupRoleCost /\ UNCHANGED << beside_followup, put >>
    \/ RefineSkip /\ UNCHANGED << beside_followup, put >>
    \/ \E reply \in AdvisoryReplies :
          RefineAttempt(reply) /\ UNCHANGED << beside_followup, put >>
    \/ \E store_up \in BOOLEAN :
          FollowupHistory(store_up) /\ UNCHANGED << beside_followup, put >>
    \/ \E store_up \in BOOLEAN :
          FollowupPersist(store_up) /\ UNCHANGED << beside_followup, put >>
    \/ FollowupReturn /\ UNCHANGED << beside_followup, put >>

HoursSpec == HoursInit /\ [][HoursNext]_vars

-----------------------------------------------------------------------------
(* process_followup and the record it leaves in the knowledge base, on     *)
(* the seeded rate card and on one whose rates an administrator has set    *)
(* to 0.                                                                   *)

\* a stored card with every canonical role at 0.0
ZeroRateCard == [ r \in CanonicalRoles |-> 0 ]

PersistTables == { DEFAULT_RATE_CARD, ZeroRateCard }

PersistInit ==
    /\ PipelineInit
    /\ rate_card = InitialRateCard
    /\ rows \in PersistTables
    /\ rc_call = NoCall
    /\ review = NoReview
    /\ kb \in HoursKbs
    /\ kb_query = NoHistoricCall
    /\ put = NoPut
    /\ fu = NoFollowup
    /\ advisory \in BOOLEAN
    /\ requests = 0
    /\ clarify = NoClarify
    /\ tx = NoSessions

PersistNext ==
    \/ \E text \in HoursTexts, store_up \in BOOLEAN :
          FollowupReadCard(text, <<>>, store_up) /\ UNCHANGED << beside_followup, put >>
    \/ FollowupRoleCost /\ UNCHANGED << beside_followup, put >>
    \/ RefineSkip /\ UNCHANGED << beside_followup, put >>
    \/ \E reply \in AdvisoryReplies :
          RefineAttempt(reply) /\ UNCHANGED << beside_followup, put >>
    \/ \E store_up \in BOOLEAN :
          FollowupHistory(store_up) /\ UNCHANGED << beside_followup, put >>
    \/ \E store_up \in BOOLEAN :
          FollowupPersist(store_up) /\ UNCHANGED << beside_followup, put >>
    \/ FollowupReturn /\ UNCHANGED << beside_followup, put >>

PersistSpec == PersistInit /\ [][PersistNext]_vars

-----------------------------------------------------------------------------
(* RateCardStore.update_rate_card called by two threads at once, each on   *)
(* a session of its own (src/backend/app/db.py).  The session does not     *)
(* autoflush and the driver opens a transaction at the first statement     *)
(* that writes: the queries read the committed table outside any           *)
(* transaction, the DELETE opens the transaction and takes the write lock  *)
(* of the database, and the commit flushes the pending INSERTs and UPDATEs *)
(* and releases it.                                                        *)

\* new_card as the list of its items, in the order of the dict
ConcurrentPayloads ==
    { <<>>,
      << [ role |-> "Project Manager", rate |-> 100 ] >>,
      << [ role |-> "Software Developer", rate |-> 70 ] >>,
      << [ role |-> "Project Manager", rate |-> 95 ],
         [ role |-> "Intern", rate |-> 70 ] >> }

\* new_card[r]
payload_rate(payload, r) ==
    payload[CHOOSE i \in DOMAIN payload : payload[i].role = r].rate

\* new_card as a mapping
card_of(payload) ==
    [ r \in { payload[i].role : i \in DOMAIN payload } |->
        payload_rate(payload, r) ]

\* whether another session holds the write lock: it has run its DELETE and
\* not yet committed
locked_by_other(s) ==
    \E o \in Sessions \ { s } : tx[o].pc = "flush" /\ tx[o].to_delete # {}

\* the rows that the flush of the session updates: those it loaded and gave
\* another rate
updated_roles(session) ==
    { r \in DOMAIN session.loaded :
        payload_rate(session.payload, r) # session.loaded[r] }

\* whether the flush raises: an UPDATE of a row that is gone, or an INSERT
\* of a role that is there by now
flush_raises(session, table) ==
    \/ updated_roles(session) \cap session.gone # {}
    \/ session.added \cap DOMAIN table # {}

\* the table after the DELETE, the UPDATEs and the INSERTs of the session
flushed(session, table) ==
    LET kept == DOMAIN table \ session.to_delete
        updated == updated_roles(session)
    IN  [ r \in kept \cup session.added |->
            IF r \in session.added \/ r \in updated
            THEN payload_rate(session.payload, r)
            ELSE table[r] ]

\* session = SessionLocal()
SessionOpen(s, payload) ==
    /\ tx[s].pc = "idle"
    /\ tx' = [tx EXCEPT ![s] = [NoSession EXCEPT !.pc = "upsert",
                                                 !.payload = payload]]
    /\ UNCHANGED rows

\* one turn of the loop over new_card.items(): the row of the role is
\* queried and given the rate, or a new row is added to the session
SessionUpsert(s) ==
    /\ tx[s].pc = "upsert"
    /\ tx[s].next <= Len(tx[s].payload)
    /\ LET role == tx[s].payload[tx[s].next].role
       IN  tx' = [tx EXCEPT
                    ![s].next = @ + 1,
                    ![s].loaded = IF role \in DOMAIN rows
                                  THEN (role :> rows[role]) @@ @ ELSE @,
                    ![s].added = IF role \in DOMAIN rows
                                 THEN @ ELSE @ \cup { role }]
    /\ UNCHANGED rows

\* existing_roles = {r.role for r in session.query(RateCardModel).all()};
\* to_delete = existing_roles - set(new_card.keys())
SessionReadExisting(s) ==
    /\ tx[s].pc = "upsert"
    /\ tx[s].next > Len(tx[s].payload)
    /\ LET existing_roles == DOMAIN rows
           to_delete == existing_roles \ DOMAIN card_of(tx[s].payload)
       IN  tx' = [tx EXCEPT
                    ![s].to_delete = to_delete,
                    ![s].pc = IF to_delete # {} THEN "delete" ELSE "flush"]
    /\ UNCHANGED rows

\* if to_delete: session.query(...).filter(role.in_(to_delete)).delete(...):
\* the statement runs at once and its transaction holds the write lock
SessionDelete(s) ==
    /\ tx[s].pc = "delete"
    /\ ~locked_by_other(s)
    /\ tx' = [tx EXCEPT ![s].pc = "flush"]
    /\ UNCHANGED rows

\* a statement that writes while another session holds the write lock, and
\* the wait for it runs out: it raises, the session is closed and nothing
\* of it is stored
SessionLocked(s) ==
    /\ tx[s].pc \in { "delete", "flush" }
    /\ locked_by_other(s)
    /\ tx' = [tx EXCEPT ![s].pc = "raised"]
    /\ UNCHANGED rows

\* session.commit(): the flush, then the commit; when the flush raises the
\* session is closed and nothing of it is stored
SessionCommit(s) ==
    /\ tx[s].pc = "flush"
    /\ ~locked_by_other(s)
    /\ IF flush_raises(tx[s], rows)
       THEN /\ tx' = [tx EXCEPT ![s].pc = "raised"]
            /\ UNCHANGED rows
       ELSE /\ rows' = flushed(tx[s], rows)
            /\ tx' = [ o \in Sessions |->
                         IF o = s
                         THEN [tx[s] EXCEPT !.pc = "committed"]
                         ELSE [tx[o] EXCEPT
                                 !.gone = @ \cup (tx[s].to_delete
                                                  \cap DOMAIN tx[o].loaded)] ]

\* both calls have returned; the next two may come
SessionsClose ==
    /\ \A s \in Sessions : tx[s].pc \in { "committed", "raised" }
    /\ tx' = NoSessions
    /\ UNCHANGED rows

beside_sessions ==
    << pipeline_vars, rc_call, review_vars, kb, kb_query, put, fu, advisory,
       requests, clarify >>

ConcurrentNext ==
    \/ \E s \in Sessions, payload \in ConcurrentPayloads :
          SessionOpen(s, payload) /\ UNCHANGED beside_sessions
    \/ \E s \in Sessions : SessionUpsert(s) /\ UNCHANGED beside_sessions
    \/ \E s \in Sessions : SessionReadExisting(s) /\ UNCHANGED beside_sessions
    \/ \E s \in Sessions : SessionDelete(s) /\ UNCHANGED beside_sessions
    \/ \E s \in Sessions : SessionLocked(s) /\ UNCHANGED beside_sessions
    \/ \E s \in Sessions : SessionCommit(s) /\ UNCHANGED beside_sessions
    \/ SessionsClose /\ UNCHANGED beside_sessions

ConcurrentSpec == Init /\ [][ConcurrentNext]_vars

-----------------------------------------------------------------------------
(* The calls of the backend orchestrator that reach the knowledge base, in *)
(* any order: process_client_input, process_followup, ingest_sow,          *)
(* ingest_chat.                                                            *)

W_budget == <<"b","u","d","g","e","t">>

W_BlogFor900 == <<"B","l","o","g"," ","f","o","r"," ","$","9","0","0">>

Digits == { "0", "1", "2", "3", "4", "5", "6", "7", "8", "9" }

\* re.search(r"\$(\d+)", text)
has_dollar_amount(text) ==
    \E i \in 1..(Len(text) - 1) : text[i] = "$" /\ text[i + 1] \in Digits

\* the test of process_client_input: the text is specific enough for an
\* estimate without questions
is_specific(text) ==
    \/ Len(text) > 400
    \/ has_dollar_amount(text)
    \/ Contains(Lower(text), W_budget)

CoreTexts == { W_WordPress, W_BlogFor900 }

CoreTranscript ==
    [ text |-> W_WordPress, bot_questions |-> << Q_users, Q_multilingual >>,
      final_price |-> 250000 ]

CoreRecord == [ features |-> { "blog" }, final_price |-> 120000 ]

\* process_client_input(text, client_info): process_followup without
\* answers, or the clarifying questions
ProcessClientInput(text, store_up) ==
    \/ /\ is_specific(text)
       /\ FollowupReadCard(text, <<>>, store_up)
       /\ UNCHANGED clarify
    \/ /\ ~is_specific(text)
       /\ GenerateClarifyingQuestions(text, store_up)
       /\ UNCHANGED << fu, requests >>

beside_core ==
    << pipeline_vars, store_vars, review_vars, kb_query, put, advisory, tx >>

CoreNext ==
    \/ \E text \in CoreTexts, store_up \in BOOLEAN :
          ProcessClientInput(text, store_up) /\ UNCHANGED beside_core
    \/ \E store_up \in BOOLEAN :
          FollowupReadCard(W_WordPress, << [ integrat |-> TRUE, parts |-> 3 ] >>,
                           store_up)
          /\ UNCHANGED << beside_core, clarify >>
    \/ FollowupRoleCost /\ UNCHANGED << beside_core, clarify >>
    \/ RefineSkip /\ UNCHANGED << beside_core, clarify >>
    \/ \E store_up \in BOOLEAN :
          FollowupHistory(store_up) /\ UNCHANGED << beside_core, clarify >>
    \/ \E store_up \in BOOLEAN :
          FollowupPersist(store_up) /\ UNCHANGED << beside_core, clarify >>
    \/ FollowupReturn /\ UNCHANGED << beside_core, clarify >>
    \/ \E store_up \in BOOLEAN :
          /\ Len(kb) < MaxChats
          /\ kb' = ingest_sow(kb, CoreRecord.features, CoreRecord.final_price,
                              <<>>, store_up)
          /\ UNCHANGED << beside_core, clarify, fu, requests >>
    \/ \E store_up \in BOOLEAN :
          IngestChat(CoreTranscript, store_up)
          /\ UNCHANGED << beside_core, fu, requests >>

CoreSpec == Init /\ [][CoreNext]_vars

-----------------------------------------------------------------------------
(* A follow-up estimate while the admin endpoint updates the rate card:    *)
(* the steps of the two requests in any order.                             *)

SnapshotPayloads ==
    { [ card |-> "Project Manager" :> 100, not_numbers |-> {} ],
      [ card |-> "Software Developer" :> 70 @@ "Intern" :> 70,
        not_numbers |-> {} ] }

SnapshotNext ==
    \/ \E store_up \in BOOLEAN :
          FollowupReadCard(W_sentence, <<>>, store_up)
          /\ UNCHANGED << beside_followup, put >>
    \/ FollowupRoleCost
       /\ UNCHANGED << beside_followup, put >>
    \/ RefineSkip
       /\ UNCHANGED << beside_followup, put >>
    \/ \E store_up \in BOOLEAN :
          FollowupHistory(store_up)
          /\ UNCHANGED << beside_followup, put >>
    \/ \E store_up \in BOOLEAN :
          FollowupPersist(store_up)
          /\ UNCHANGED << beside_followup, put >>
    \/ FollowupReturn
       /\ UNCHANGED << beside_followup, put >>
    \/ \E p \in SnapshotPayloads : PutStore(p) /\ UNCHANGED << beside_put, fu >>
    \/ PutNotify /\ UNCHANGED << beside_put, fu >>
    \/ PutRespond /\ UNCHANGED << beside_put, fu >>

SnapshotSpec == Init /\ [][SnapshotNext]_vars

-----------------------------------------------------------------------------
(* The claims.                                                             *)

Abs(x) == IF x < 0 THEN -x ELSE x

FeatureTags == { "booking", "blog", "reviews", "ecommerce", "auth", "api" }

PhaseHoursSum == SumSeq([i \in DOMAIN estimate.phases |-> estimate.phases[i].hours])

\* C1: whatever the project type and the missingFields list,
\* generate_questions returns between 3 and 7 questions, no two the same.
C1_QuestionsBetween3And7Distinct ==
    pc = "asked" =>
        /\ Len(questions) >= 3
        /\ Len(questions) <= 7
        /\ NoDuplicates(questions)

\* C1: generate_questions on a hubspot intent with nothing missing returns
\* no question at all.
C1_Witness ==
    /\ pc = "asked"
    /\ intent_data.projectType = "hubspot"
    /\ intent_data.missingFields = <<>>
    /\ questions = <<>>

\* C2: extract_intent returns, for every text, a project type of the five,
\* a duplicate-free list of configured feature tags, and the same result
\* when called again; the empty text gives unknown and no feature.
C2_ExtractIntentTotal ==
    pc = "intent" =>
        /\ intent_data.projectType \in ProjectTypes
        /\ Range(intent_data.detectedFeatures) \subseteq FeatureTags
        /\ NoDuplicates(intent_data.detectedFeatures)
        /\ extract_intent(client_input).projectType = intent_data.projectType
        /\ extract_intent(client_input).detectedFeatures = intent_data.detectedFeatures
        /\ (client_input = <<>> =>
               /\ intent_data.projectType = "unknown"
               /\ intent_data.detectedFeatures = <<>>)

\* C2: extract_intent has run on the empty text and returned unknown with no
\* feature.
C2_Witness ==
    /\ pc = "intent"
    /\ client_input = <<>>
    /\ intent_data.projectType = "unknown"
    /\ intent_data.detectedFeatures = <<>>

\* C3: the project type is that of the first signal group, in the order
\* wordpress, hubspot, web_app, cloud, that has a word in the lowercased
\* text, and unknown when none has.
C3_FirstMatchWins ==
    pc = "intent" =>
        LET text == Lower(client_input)
            wp == ContainsAny(text, WordpressWords)
            hs == ContainsAny(text, HubspotWords)
            wa == ContainsAny(text, WebAppWords)
            cl == ContainsAny(text, CloudWords)
        IN  /\ wp => intent_data.projectType = "wordpress"
            /\ (hs /\ ~wp) => intent_data.projectType = "hubspot"
            /\ (wa /\ ~wp /\ ~hs) => intent_data.projectType = "web_app"
            /\ (cl /\ ~wp /\ ~hs /\ ~wa) => intent_data.projectType = "cloud"
            /\ (~wp /\ ~hs /\ ~wa /\ ~cl) => intent_data.projectType = "unknown"

\* C3: a text with a wordpress and a hubspot signal has been typed wordpress.
C3_Witness ==
    /\ pc = "intent"
    /\ ContainsAny(Lower(client_input), WordpressWords)
    /\ ContainsAny(Lower(client_input), HubspotWords)
    /\ intent_data.projectType = "wordpress"

\* C4: extract_intent, build_scope without answers and estimate_project on
\* "We need a WordPress site with appointment booking and a blog" give
\* wordpress, the features booking and blog, 80 base, 60 feature and 0
\* integration hours, the multiplier 1.15, 140 raw hours and totalHours 161.
C4_WordPressScenario ==
    ( /\ pc = "estimated"
      /\ history = << "extract_intent", "build_scope", "estimate_project" >>
      /\ client_input = W_sentence
      /\ answers = EmptyAnswers ) =>
        /\ intent_data.projectType = "wordpress"
        /\ scope.projectType = "wordpress"
        /\ Range(scope.features) = { "booking", "blog" }
        /\ Len(scope.features) = 2
        /\ calc.base_hours = 80
        /\ calc.feature_hours = 60
        /\ calc.integration_hours = 0
        /\ calc.complexity_multiplier = 115
        /\ calc.total_raw_hours = 140
        /\ estimate.totalHours = 161

\* C4: the three agents have run on the sentence, without answers, and the
\* estimate is 161 hours.
C4_Witness ==
    /\ pc = "estimated"
    /\ history = << "extract_intent", "build_scope", "estimate_project" >>
    /\ client_input = W_sentence
    /\ answers = EmptyAnswers
    /\ estimate.totalHours = 161

\* C5 as stated: a scope without features and integrations, of a type with
\* a template, is estimated at round(base_hours * 1.15) hours.
C5_BufferOnly_AsStated ==
    ( /\ pc = "estimated"
      /\ scope.features = <<>>
      /\ scope.integrations = <<>>
      /\ scope.projectType \in TemplateTypes ) =>
        /\ \A up \in BOOLEAN :
              estimate.totalHours
                  = Round(template_base_hours(scope.projectType) * 115, 100, up)
        /\ scope.projectType = "web_app" => estimate.totalHours = 138

\* C5, amended: a scope without features and integrations, with security
\* empty or "basic" and empty compliance, of a type with a template, is
\* estimated at round(base_hours * 1.15) hours, 138 for web_app; with any
\* other security level or a compliance the multiplier is larger.
C5_BufferOnly ==
    ( /\ pc = "estimated"
      /\ scope.features = <<>>
      /\ scope.integrations = <<>>
      /\ scope.projectType \in TemplateTypes ) =>
        IF scope.security \in { "", "basic" } /\ scope.compliance = ""
        THEN /\ \A up \in BOOLEAN :
                   estimate.totalHours
                       = Round(template_base_hours(scope.projectType) * 115, 100, up)
             /\ scope.projectType = "web_app" => estimate.totalHours = 138
        ELSE calc.complexity_multiplier > 115

\* C5: a web_app scope without features and integrations, security
\* "basic", no compliance, has been estimated at 138 hours.
C5_Witness ==
    /\ pc = "estimated"
    /\ scope.features = <<>>
    /\ scope.integrations = <<>>
    /\ scope.projectType = "web_app"
    /\ scope.security = "basic"
    /\ scope.compliance = ""
    /\ estimate.totalHours = 138

\* C6: the unrounded total hours of a scope with a compliance exceed those
\* of the same scope without one by 0.3 * raw_hours exactly, and its
\* totalHours is the larger.
C6_ComplianceAddsThreeTenths ==
    pc = "estimated" =>
        \A c \in ComplianceValues \ { "" } :
            LET with == [scope EXCEPT !.compliance = c]
                without == [scope EXCEPT !.compliance = ""]
                other == IF scope.compliance = "" THEN with ELSE without
                other_total == estimate_locals(other).total_hours
                hi == IF scope.compliance = "" THEN other_total ELSE calc.total_hours
                lo == IF scope.compliance = "" THEN calc.total_hours ELSE other_total
            IN  /\ estimate_locals(other).total_raw_hours = calc.total_raw_hours
                /\ hi - lo = 30 * calc.total_raw_hours
                /\ \A up \in BOOLEAN :
                      IF scope.compliance = ""
                      THEN Round(other_total, 100, up) > estimate.totalHours
                      ELSE estimate.totalHours > Round(other_total, 100, up)

\* C6: a scope with a compliance has been estimated, 0.3 * raw_hours above
\* the same scope without one.
C6_Witness ==
    /\ pc = "estimated"
    /\ scope.compliance # ""
    /\ calc.total_hours
         = estimate_locals([scope EXCEPT !.compliance = ""]).total_hours
           + 30 * calc.total_raw_hours

\* C7 as stated: the rounded phase hours add up to totalHours within 1.
C7_PhaseSumWithinOne_AsStated ==
    pc = "estimated" => Abs(PhaseHoursSum - estimate.totalHours) <= 1

\* C7, amended: the rounded phase hours add up to totalHours within 2.
C7_PhaseSumWithinTwo ==
    pc = "estimated" => Abs(PhaseHoursSum - estimate.totalHours) <= 2

\* C7: an estimate whose phase hours add up to 2 off its totalHours.
C7_Witness ==
    /\ pc = "estimated"
    /\ Abs(PhaseHoursSum - estimate.totalHours) = 2

\* C8: a scope with a feature and at most 2 integrations, estimated with a
\* similarity_score of 1.0, gets confidence P90.
C8_FullSimilarityIsP90 ==
    ( /\ pc = "estimated"
      /\ scope.features # <<>>
      /\ Len(scope.integrations) <= 2
      /\ "similarity_score" \in knowledge_data.keys
      /\ knowledge_data.similarity_score = 10 ) =>
        estimate.confidence = "P90"

\* C8: a scope with a feature and 2 integrations has been estimated with
\* similarity 1.0 as P90.
C8_Witness ==
    /\ pc = "estimated"
    /\ scope.features # <<>>
    /\ Len(scope.integrations) = 2
    /\ "similarity_score" \in knowledge_data.keys
    /\ knowledge_data.similarity_score = 10
    /\ estimate.confidence = "P90"

\* C9: in every role allocation of an estimate, cost is the stored hours
\* times the rate, rounded.
C9_RoleCostIsHoursTimesRate ==
    pc = "estimated" =>
        \A i \in DOMAIN estimate.roles :
            estimate.roles[i].cost
                = estimate.roles[i].hours * estimate.roles[i].rate

\* C9: the Project Manager of a wordpress scope without features and
\* integrations is stored with 14 hours at rate 90 and cost 1242, the
\* rounding of 13.8 * 90, where 14 * 90 is 1260.
C9_Witness ==
    /\ pc = "estimated"
    /\ rate_card = InitialRateCard
    /\ scope.projectType = "wordpress"
    /\ \E i \in DOMAIN estimate.roles :
          /\ estimate.roles[i].name = "Project Manager"
          /\ estimate.roles[i].hours = 14
          /\ estimate.roles[i].rate = 90
          /\ estimate.roles[i].cost = 1242

\* C10: after update_rate_card has completed with a payload, the stored
\* roles are the keys of the payload, with its rates, whatever was stored
\* before.
C10_UpdateReplacesCard ==
    (rc_call.op = "update" /\ ~rc_call.raised) =>
        /\ DOMAIN rows = DOMAIN rc_call.payload.card
        /\ \A r \in DOMAIN rows : rows[r] = rc_call.payload.card[r]

\* C10: an update with the Project Manager alone has replaced a card of
\* several roles.
C10_Witness ==
    /\ rc_call.op = "update"
    /\ ~rc_call.raised
    /\ DOMAIN rc_call.payload.card = { "Project Manager" }
    /\ rc_call.payload.card["Project Manager"] = 100
    /\ Cardinality(DOMAIN rc_call.before) > 1
    /\ DOMAIN rows = { "Project Manager" }
    /\ rows["Project Manager"] = 100

-----------------------------------------------------------------------------
(* The admin endpoint, the knowledge base, the follow-up estimate and the  *)
(* reviewer.                                                               *)

\* C11: after any sequence of PUT /api/admin/ratecard requests, every role
\* of the stored rate card is one of the six canonical roles, also when the
\* payload holds non-canonical roles only.  The code stores the payload as
\* it came before the orchestrator filters it, and the orchestrator writes
\* nothing when its filter leaves nothing, so the property is violated.
C11_StoredRolesAreCanonical ==
    (put.pc = "idle" /\ put.served) => DOMAIN rows \subseteq CanonicalRoles

\* a request whose payload had the role Intern only has been answered, and
\* Intern is the stored card
C11_Witness ==
    /\ put.pc = "idle"
    /\ put.served
    /\ DOMAIN put.payload.card = { "Intern" }
    /\ put.payload.not_numbers = {}
    /\ DOMAIN rows = { "Intern" }
    /\ put.response = rows

\* the last ingest stored a record with features, and _historic_insights
\* was then called with the same features on a reachable store
C12_IngestedThenQueried ==
    /\ kb_query.called
    /\ kb_query.ingested
    /\ kb_query.store_up
    /\ kb # <<>>
    /\ kb[Len(kb)].features # {}
    /\ kb_query.result.features = kb[Len(kb)].features

\* the earlier rows that hold every feature of the last one
C12_EarlierWithAllFeatures ==
    { j \in 1..(Len(kb) - 1) : kb[Len(kb)].features \subseteq kb[j].features }

\* C12: after any sequence of earlier ingests, a record ingested with a
\* non-empty feature set F is in the similar_projects that
\* _historic_insights returns for F exactly when fewer than five earlier
\* records hold all of F; every record returned has an overlap of at least
\* 1 with F.
C12_RoundTripWithinFive ==
    C12_IngestedThenQueried =>
        LET similar == kb_query.result.similar_projects
        IN  /\ (kb[Len(kb)] \in Range(similar))
                  <=> (Cardinality(C12_EarlierWithAllFeatures) < 5)
            /\ \A i \in DOMAIN similar :
                  overlap(kb[Len(kb)].features, similar[i]) >= 1

\* C12 (as stated): the record is always in the list returned
C12_RoundTrip_AsStated ==
    C12_IngestedThenQueried =>
        /\ kb[Len(kb)] \in Range(kb_query.result.similar_projects)
        /\ overlap(kb[Len(kb)].features, kb[Len(kb)]) >= 1

\* the record is returned after earlier ingests, behind rows of the same
\* overlap
C12_Witness ==
    /\ C12_IngestedThenQueried
    /\ Len(kb) > 2
    /\ C12_EarlierWithAllFeatures # {}
    /\ kb[Len(kb)] \in Range(kb_query.result.similar_projects)

\* the calls and the sleeps of _call_openai_refine so far: at most three
\* calls, none without the client and the key, a sleep of 0.5 s times the
\* number of the attempt after each failure but the third
C13_CallsAndSleeps ==
    /\ fu.calls = fu.attempts
    /\ fu.calls <= 3
    /\ ~advisory => fu.calls = 0 /\ fu.sleeps = <<>>
    /\ Len(fu.sleeps) <= 2
    /\ \A k \in DOMAIN fu.sleeps : fu.sleeps[k] = 5 * k
    /\ fu.pc = "refine" => Len(fu.sleeps) = fu.attempts
    /\ (advisory /\ fu.pc \in { "history", "persist", "done" } /\ fu.ml_resp.none)
          => fu.calls = 3 /\ fu.sleeps = << 5, 10 >>

\* C13: _call_openai_refine always terminates, after at most 3 calls of the
\* advisory service whatever each returns or raises; it sleeps 0.5 s times
\* the attempt number after the first and the second failure and not after
\* the third; without the client or the key it makes no call.
C13_RefineTerminatesWithinThreeCalls ==
    /\ []C13_CallsAndSleeps
    /\ (fu.pc = "refine") ~> (fu.pc = "history")

\* three calls were made, one of them answered with a valid object, and
\* the two sleeps were taken
C13_Witness ==
    /\ advisory
    /\ fu.pc = "history"
    /\ fu.calls = 3
    /\ fu.sleeps = << 5, 10 >>
    /\ "valid" \in fu.replies
    /\ "raises" \in fu.replies

\* the two roundings of the 0.6 / 0.4 blend of a raw cost with an average
BlendRoundings(raw_total_cost, avg) ==
    { historical_blend(raw_total_cost, avg, up) : up \in BOOLEAN }

\* C14: when the advisory call fails on every attempt (it raises, answers
\* with no JSON or with the wrong shape), or the knowledge store is
\* unreachable, process_followup returns a result of status "completed"
\* whose totalCost is the sum of the role costs, or its 0.6 / 0.4 blend
\* with the historical average when _historic_insights returned one; with
\* the store unreachable there is no average and the cost is the sum.
C14_DegradesToHeuristic ==
    (fu.pc = "done" /\ fu.ml_resp.none) =>
        LET avg == fu.hist.avg_final_price
            raw == SumSeq([ i \in DOMAIN fu.breakdown |-> fu.breakdown[i].cost ])
        IN  /\ fu.result.status = "completed"
            /\ Len(fu.breakdown) = Len(role_fracs)
            /\ fu.raw_total_cost = raw
            /\ ~fu.hist_ok => avg.count = 0
            /\ IF avg.count > 0
               THEN fu.result.totalCost \in BlendRoundings(raw, avg)
               ELSE fu.result.totalCost = raw

\* the advisory service failed three times in the three ways, the knowledge
\* store that holds a priced row was unreachable, and the result is the sum
\* of the role costs
C14_Witness ==
    /\ fu.pc = "done"
    /\ advisory
    /\ fu.calls = 3
    /\ fu.replies = { "raises", "not_json", "wrong_schema" }
    /\ ~fu.hist_ok
    /\ historic_prices(kb).count > 0
    /\ fu.result.status = "completed"
    /\ fu.result.totalCost = fu.raw_total_cost
    /\ fu.raw_total_cost > 0

\* the reply of the advisory service that fits the schema
C15_ValidReply == CHOOSE reply \in AdvisoryReplies : reply.kind = "valid"

\* C15: when the advisory service is configured and answers with an object
\* that fits the schema, process_followup returns its adjusted_total_cost
\* as totalCost, without the historical blend.  The code reaches
\* `if jsonschema:` with the parsed object, a name that is not defined, so
\* every attempt ends in the except branch and the property is violated.
C15_ValidAdvisoryCostIsReturned ==
    (fu.pc = "done" /\ advisory /\ "valid" \in fu.replies) =>
        fu.result.totalCost = C15_ValidReply.adjusted_total_cost

\* the service answered three times with a valid object, and the result is
\* the blend of the raw cost with the historical average
C15_Witness ==
    /\ fu.pc = "done"
    /\ advisory
    /\ fu.replies = { "valid" }
    /\ fu.calls = 3
    /\ fu.hist.avg_final_price.count > 0
    /\ fu.result.totalCost # C15_ValidReply.adjusted_total_cost
    /\ fu.result.totalCost \in
          BlendRoundings(fu.raw_total_cost, fu.hist.avg_final_price)

\* no advisory correction, the knowledge store reachable, and the cost
\* adjusted but not yet ingested: kb is what _historic_insights read
C16_NoCorrection ==
    fu.pc = "persist" /\ fu.ml_resp.none /\ fu.hist_ok

\* C16: when no advisory correction is available, the adjusted cost is
\* round(0.6 * rawCost + 0.4 * avg, 2), where avg is the average final
\* price of all the knowledge-base records that have a price, whether or
\* not their features overlap the current ones; when no record has a price
\* the adjusted cost is rawCost.
C16_BlendWithAverageOfAllPrices ==
    C16_NoCorrection =>
        LET avg == historic_prices(kb)
        IN  IF avg.count > 0
            THEN fu.adjusted_total_cost \in BlendRoundings(fu.raw_total_cost, avg)
            ELSE fu.adjusted_total_cost = fu.raw_total_cost

\* C16 (as stated): avg is the average over the records whose features
\* overlap the current features
C16_BlendWithAverageOfSimilar_AsStated ==
    C16_NoCorrection =>
        LET avg == historic_prices_of_similar(kb, fu.features)
        IN  IF avg.count > 0
            THEN fu.adjusted_total_cost \in BlendRoundings(fu.raw_total_cost, avg)
            ELSE fu.adjusted_total_cost = fu.raw_total_cost

\* the only priced record shares no feature with the request, and the cost
\* was blended with its price
C16_Witness ==
    /\ C16_NoCorrection
    /\ fu.features # {}
    /\ historic_prices(kb).count > 0
    /\ historic_prices_of_similar(kb, fu.features).count = 0
    /\ fu.adjusted_total_cost # fu.raw_total_cost

\* validate_proposal has returned a result
C17_Returned == pc = "reviewed" /\ ~review.raised

\* some role's cost / max(hours, 1) is further than half the mean rate from
\* the mean rate; at exactly half either answer is allowed
C17_SomeRoleDeviates(strictly) ==
    \E i \in DOMAIN estimate.roles :
        LET n == Len(estimate.roles)
            mean_times_n == SumSeq([ k \in DOMAIN estimate.roles |->
                                        estimate.roles[k].rate ])
            h == IF estimate.roles[i].hours > 1
                 THEN estimate.roles[i].hours ELSE 1
            d == estimate.roles[i].cost * n - mean_times_n * h
            twice == 2 * (IF d < 0 THEN -d ELSE d)
        IN  IF strictly THEN twice > mean_times_n * h
            ELSE twice >= mean_times_n * h

\* C17: validate_proposal returns approved = true exactly when issues is
\* empty, and issues holds one entry for each of these conditions that
\* holds and none otherwise: the confidence is P50; a feature name contains
\* "TBD"; some role's cost / max(hours, 1) deviates from the mean rate of
\* the roles by more than 50%.
C17_ApprovedIffNoIssue ==
    C17_Returned =>
        LET issues == Range(review.issues)
        IN  /\ review.approved <=> (review.issues = <<>>)
            /\ Len(review.issues) = Cardinality(issues)
            /\ issues \subseteq
                  { W_LowConfidence, W_UndefinedFeatures, W_PricingAnomaly }
            /\ (W_LowConfidence \in issues) <=> (estimate.confidence = "P50")
            /\ (W_UndefinedFeatures \in issues)
                  <=> (\E i \in DOMAIN scope.features :
                          Contains(Spelling(scope.features[i]), W_TBD))
            /\ C17_SomeRoleDeviates(TRUE) => W_PricingAnomaly \in issues
            /\ W_PricingAnomaly \in issues => C17_SomeRoleDeviates(FALSE)

\* a proposal with the three issues at once
C17_Witness ==
    /\ C17_Returned
    /\ ~review.approved
    /\ review.issues
          = << W_LowConfidence, W_UndefinedFeatures, W_PricingAnomaly >>

\* C18: missing configuration is never fatal: for a scope whose project
\* type has no template, estimate_project completes with the defaults and
\* validate_proposal returns a result instead of raising.  The estimate of
\* such a scope has no role, and _has_pricing_anomaly divides by the number
\* of roles, so the property is violated.
C18_ValidateProposalReturns ==
    pc = "reviewed" => ~review.raised

\* the estimate of a scope of type unknown was made with the default base
\* hours and no role, and validate_proposal raised
C18_Witness ==
    /\ pc = "reviewed"
    /\ scope.projectType = "unknown"
    /\ calc.base_hours = 100
    /\ estimate.roles = <<>>
    /\ review.raised

\* build_scope has just returned, called with answers = {}
C19_BuiltFromEmptyAnswers ==
    /\ pc = "scoped"
    /\ history # <<>>
    /\ history[Len(history)] = "build_scope"
    /\ answers.keys = {}

\* C19: build_scope never fails for a key missing from answers: with
\* answers = {} it returns integrations [], platforms ["Web"], compliance
\* "", assumptions ["No assumptions specified."], the intent features
\* without duplicates, and security "standard" for web_app and "basic" for
\* any other project type.
C19_DefaultsForEmptyAnswers ==
    C19_BuiltFromEmptyAnswers =>
        /\ scope.projectType = intent_data.projectType
        /\ scope.integrations = <<>>
        /\ scope.platforms = << "Web" >>
        /\ scope.compliance = ""
        /\ scope.assumptions = << "No assumptions specified." >>
        /\ Range(scope.features) = Range(intent_data.detectedFeatures)
        /\ Len(scope.features) = Cardinality(Range(scope.features))
        /\ scope.security
              = IF intent_data.projectType = "web_app" THEN "standard"
                ELSE "basic"

\* a scope built from answers = {} for a request with features
C19_Witness ==
    /\ C19_BuiltFromEmptyAnswers
    /\ scope.features # <<>>
    /\ scope.platforms = << "Web" >>
    /\ scope.security = "basic"

\* the rate of a role in the card that process_followup read
C20_RateIn(table, role) ==
    LET card == store_get_rate_card(table)
    IN  IF role \in DOMAIN card THEN card[role] ELSE 90

\* C20: one estimate call reads the rate card once and uses that snapshot
\* for every role: when an update of the rate card runs during
\* process_followup, every rate of the breakdown comes from the one card
\* that was stored when the call read it, with 90.0 for a role that card
\* lacks, never from two cards.
C20_BreakdownFromOneSnapshot ==
    (fu.pc # "idle" /\ fu.read_ok) =>
        \A i \in DOMAIN fu.breakdown :
            fu.breakdown[i].rate
                = C20_RateIn(fu.table_read, fu.breakdown[i].role)

\* an estimate whose card was read between the two writes of an update:
\* the stored card has changed since, a role of the breakdown is priced at
\* the 90.0 of a missing role, and all six roles are priced
C20_Witness ==
    /\ fu.pc = "done"
    /\ fu.read_ok
    /\ rows # fu.table_read
    /\ Len(fu.breakdown) = Len(role_fracs)
    /\ \E i \in DOMAIN fu.breakdown :
          /\ fu.breakdown[i].role \notin DOMAIN fu.table_read
          /\ fu.breakdown[i].rate = 90
    /\ \E i \in DOMAIN fu.breakdown :
          fu.breakdown[i].rate # C20_RateIn(rows, fu.breakdown[i].role)

-----------------------------------------------------------------------------
(* The confidence levels, the lightweight estimate, the clarifying         *)
(* questions, the knowledge base over time, concurrent updates and the CRM *)
(* sync.                                                                   *)

\* four times the average of the confidence factors of the scope and the
\* knowledge data of the last estimate, in tenths
C21_FourTimesAverage ==
    (IF Len(scope.features) > 0 THEN 8 ELSE 3)
    + 7
    + (IF "similarity_score" \in knowledge_data.keys
       THEN knowledge_data.similarity_score ELSE 5)
    + (IF Len(scope.integrations) > 2 THEN 6 ELSE 8)

\* C21: every estimate of estimate_project carries one of the pairs
\* (P90, 0.10), (P80, 0.15), (P70, 0.20), (P50, 0.30), chosen by the
\* thresholds average >= 0.8, >= 0.7, >= 0.6, else; P60 is never produced.
C21_ConfidencePairs ==
    pc = "estimated" =>
        /\ << estimate.confidence, estimate.variance >>
              \in { << "P90", 10 >>, << "P80", 15 >>, << "P70", 20 >>,
                    << "P50", 30 >> }
        /\ estimate.confidence # "P60"
        /\ estimate.confidence = "P90" <=> C21_FourTimesAverage >= 32
        /\ estimate.confidence = "P80"
              <=> (C21_FourTimesAverage >= 28 /\ C21_FourTimesAverage < 32)
        /\ estimate.confidence = "P70"
              <=> (C21_FourTimesAverage >= 24 /\ C21_FourTimesAverage < 28)
        /\ estimate.confidence = "P50" <=> C21_FourTimesAverage < 24

\* an estimate of level P70 with variance 0.20: three integrations and no
\* similarity score
C21_Witness ==
    /\ pc = "estimated"
    /\ estimate.confidence = "P70"
    /\ estimate.variance = 20
    /\ Len(scope.integrations) > 2
    /\ "similarity_score" \notin knowledge_data.keys

\* 40 + 12 * features + 10 * extra integrations - 3 * answers, for the
\* request that process_followup is answering
C22_AdditiveHours ==
    LET extra(a) == IF a.integrat /\ a.parts > 1 THEN a.parts - 1 ELSE 0
    IN  40 + 12 * Cardinality(fu.features)
        + 10 * SumSeq([ i \in DOMAIN fu.answers |-> extra(fu.answers[i]) ])
        - 3 * Len(fu.answers)

\* C22: for every text and every list of answers, process_followup returns
\* totalHours = max(20, 40 + 12 * (detected features)
\* + 10 * (extra integrations) - 3 * (answers)); totalHours is never below
\* 20.
C22_TotalHoursFloor ==
    fu.pc = "done" =>
        /\ fu.result.totalHours
              = (IF C22_AdditiveHours > 20 THEN C22_AdditiveHours ELSE 20)
        /\ fu.result.totalHours >= 20

\* seven answers on a text without a feature: 40 - 21 = 19 hours are
\* raised to 20
C22_Witness ==
    /\ fu.pc = "done"
    /\ fu.features = {}
    /\ Len(fu.answers) = 7
    /\ C22_AdditiveHours = 19
    /\ fu.result.totalHours = 20

\* C23: for every text and every content of the knowledge base,
\* generate_clarifying_questions returns between 3 and 6 questions without
\* a duplicate; the base questions come first in their fixed order, and the
\* common questions of similar past chats follow them, only those that are
\* not base questions.
C23_ClarifyingQuestions ==
    clarify.called =>
        LET base == clarifying_base_questions(clarify.features)
            qs == clarify.questions
            n == IF Len(base) < Len(qs) THEN Len(base) ELSE Len(qs)
        IN  /\ Len(qs) >= 3
            /\ Len(qs) <= 6
            /\ Cardinality(Range(qs)) = Len(qs)
            /\ SubSeq(qs, 1, n) = SubSeq(base, 1, n)
            /\ Len(qs) >= (IF Len(base) < 6 THEN Len(base) ELSE 6)
            /\ \A i \in (n + 1)..Len(qs) :
                  /\ qs[i] \notin Range(base)
                  /\ \E r \in Range(kb) : qs[i] \in Range(r.chat)

\* five base questions followed by a question of a similar past chat, in
\* which a base question occurred too
C23_Witness ==
    /\ clarify.called
    /\ Len(clarify.questions) = 6
    /\ clarify.questions[6] = Q_multilingual
    /\ \E r \in Range(kb) :
          /\ r.features \cap clarify.features # {}
          /\ Q_users \in Range(r.chat)

\* C24: the knowledge base is append-only for the core: over any sequence
\* of process_followup, process_client_input,
\* generate_clarifying_questions, ingest_sow and ingest_chat calls, every
\* step leaves each existing record as it is, so the number of records
\* never decreases and each record keeps its features and its final_price.
C24_AppendOnly ==
    [][ /\ Len(kb') >= Len(kb)
        /\ \A i \in DOMAIN kb :
              /\ kb'[i].features = kb[i].features
              /\ kb'[i].final_price = kb[i].final_price
              /\ kb'[i] = kb[i] ]_vars

\* a chat, a SOW and the estimate of process_client_input are in the
\* knowledge base in the order they came, after clarifying questions were
\* asked
C24_Witness ==
    /\ Len(kb) >= 3
    /\ kb[1].chat # <<>>
    /\ kb[2].final_price = CoreRecord.final_price
    /\ fu.pc = "done"
    /\ fu.answers = <<>>
    /\ kb[Len(kb)].final_price = fu.result.totalCost
    /\ clarify.called

\* the sum of the role costs of the estimate, as the roles list carries them
C25_SumOfRoleCosts ==
    SumSeq([ i \in DOMAIN estimate.roles |-> estimate.roles[i].cost ])

\* C25: totalCost of an estimate is the sum of its role costs rounded to the
\* nearest 100: a multiple of 100 that differs from the sum by at most 50.
C25_TotalCostRounded ==
    pc = "estimated" =>
        /\ estimate.totalCost % 100 = 0
        /\ estimate.totalCost - C25_SumOfRoleCosts <= 50
        /\ C25_SumOfRoleCosts - estimate.totalCost <= 50

\* an estimate with roles whose total was rounded up, by more than 40
C25_Witness ==
    /\ pc = "estimated"
    /\ estimate.roles # <<>>
    /\ estimate.totalCost - C25_SumOfRoleCosts > 40

\* the calls of the run so far that come before the i-th
C27_Before(i) == { history[j] : j \in 1..(i - 1) }

\* how many times sync_to_crm was called in the run so far
C27_Syncs == Cardinality({ i \in DOMAIN history : history[i] = "sync_to_crm" })

\* C27: in process_client_input of the command line, sync_to_crm is called
\* only after validate_proposal returned approved; a review that did not
\* approve gives status "requires_review" with the issues of the review and
\* no sync; status "completed" means exactly one sync, after the review.
C27_SyncOnlyAfterApproval ==
    /\ \A i \in DOMAIN history :
          history[i] = "sync_to_crm" =>
              /\ "validate_proposal" \in C27_Before(i)
              /\ review.approved
              /\ ~review.raised
    /\ (pc \in { "reviewed", "returned" } /\ ~review.approved) =>
          /\ C27_Syncs = 0
          /\ pc = "returned" =>
                /\ result.status = "requires_review"
                /\ result.review_issues = review.issues
                /\ result.review_issues # <<>>
    /\ result.status = "requires_review" =>
          (~review.approved /\ C27_Syncs = 0)
    /\ result.status = "completed" =>
          /\ C27_Syncs = 1
          /\ review.approved
          /\ history[Len(history)] = "sync_to_crm"
          /\ history[Len(history) - 1] = "validate_proposal"

\* a run whose review approved has returned "completed" after its one sync
C27_Witness ==
    /\ pc = "returned"
    /\ result.status = "completed"
    /\ review.approved
    /\ C27_Syncs = 1

\* C28: whatever updates came before, the empty payload included,
\* RateCardStore.get_rate_card and the get_rate_card of the orchestrator
\* never return an empty mapping; with no row stored they return the
\* default card of six roles.
C28_NeverEmptyCard ==
    rc_call.op \in { "get", "orchestrator_get" } =>
        /\ DOMAIN rc_call.result # {}
        /\ DOMAIN rc_call.before = {} =>
              /\ rc_call.result = DEFAULT_RATE_CARD
              /\ Cardinality(DOMAIN rc_call.result) = 6

\* the orchestrator has read the card from a table that an update with the
\* empty payload left without rows, and got the six default roles
C28_Witness ==
    /\ rc_call.op = "orchestrator_get"
    /\ ~rc_call.raised
    /\ rows = EmptyCard
    /\ rc_call.before = EmptyCard
    /\ Cardinality(DOMAIN rc_call.result) = 6

\* total_hours as the text and the answers of the request alone give it
C29_TotalHoursOf(text, ans) ==
    LET f == Cardinality(backend_extract_features(text))
        e == SumSeq([ i \in DOMAIN ans |->
                        IF ans[i].integrat /\ ans[i].parts > 1
                        THEN ans[i].parts - 1 ELSE 0 ])
        sum == 40 + 12 * f + 10 * e - 3 * Len(ans)
    IN  IF sum > 20 THEN sum ELSE 20

\* the roundings of total_hours * pct / 100 to an integer
C29_RoleHoursOf(total_hours, pct) ==
    LET n == total_hours * pct
    IN  IF 2 * (n % 100) = 100
        THEN { n \div 100, n \div 100 + 1 }
        ELSE { (n + 50) \div 100 }

\* C29: totalHours and the hours of every role of a follow-up estimate are
\* given by the text and the answers of the request alone, whatever the
\* knowledge base, the stored rate card and the advisory service are; the
\* rates and the costs are what may differ.
C29_HoursFromTextAndAnswers ==
    fu.pc # "idle" =>
        LET total_hours == C29_TotalHoursOf(fu.text, fu.answers)
        IN  /\ fu.total_hours = total_hours
            /\ \A i \in DOMAIN fu.breakdown :
                  /\ fu.breakdown[i].role = role_fracs[i].role
                  /\ fu.breakdown[i].hours
                        \in C29_RoleHoursOf(total_hours, role_fracs[i].pct)
            /\ fu.pc = "done" =>
                  /\ fu.result.totalHours = total_hours
                  /\ fu.result.breakdown = fu.breakdown
                  /\ Len(fu.breakdown) = Len(role_fracs)

\* an estimate of 57 hours on a card with other rates than the seeded one,
\* blended with the history: the Software Developer has 28 hours at 100
C29_Witness ==
    /\ fu.pc = "done"
    /\ fu.text = W_hello
    /\ Len(fu.answers) = 1
    /\ fu.result.totalHours = 57
    /\ fu.rate_card["Software Developer"] = 100
    /\ fu.result.breakdown[1].hours = 28
    /\ fu.result.breakdown[1].rate = 100
    /\ kb # <<>>
    /\ fu.result.totalCost # fu.raw_total_cost

\* the step of process_followup that ingests the estimate and builds the
\* result
C30_PersistStep == fu.pc = "persist" /\ fu'.pc = "done"

\* the row that the step appends: the detected features and, as
\* final_price, the totalCost of the result
C30_RecordAppended ==
    /\ Len(kb') = Len(kb) + 1
    /\ SubSeq(kb', 1, Len(kb)) = kb
    /\ kb'[Len(kb')].features = fu'.features
    /\ kb'[Len(kb')].features = backend_extract_features(fu'.text)
    /\ kb'[Len(kb')].final_price = fu'.result.totalCost

\* the prices that a later _historic_insights averages have gained the
\* totalCost of the result
C30_CountedInAverage ==
    /\ historic_prices(kb').count = historic_prices(kb).count + 1
    /\ historic_prices(kb').sum
          = historic_prices(kb).sum + fu'.result.totalCost

\* C30 as stated: a completing process_followup with a writable store
\* appends exactly one record with the detected features and the returned
\* adjusted cost as final_price, which is part of the historical average of
\* later estimates; when the write fails the call still returns and the
\* knowledge base is as before.
C30_EstimateJoinsAverage_AsStated ==
    [][ C30_PersistStep =>
          /\ fu'.result.status = "completed"
          /\ IF fu'.write_ok
             THEN C30_RecordAppended /\ C30_CountedInAverage
             ELSE kb' = kb ]_vars

\* C30: the same, the record being part of the later average when its
\* final_price is not 0; a record with final_price 0 is appended and left
\* out of the average.
C30_EstimateJoinsAverage ==
    [][ C30_PersistStep =>
          /\ fu'.result.status = "completed"
          /\ IF fu'.write_ok
             THEN /\ C30_RecordAppended
                  /\ fu'.result.totalCost # 0 => C30_CountedInAverage
                  /\ fu'.result.totalCost = 0 =>
                        historic_prices(kb') = historic_prices(kb)
             ELSE kb' = kb ]_vars

\* an estimate blended with the history has been appended with its price
C30_Witness ==
    /\ fu.pc = "done"
    /\ fu.write_ok
    /\ Len(kb) = 2
    /\ kb[2].final_price = fu.result.totalCost
    /\ kb[2].final_price # fu.raw_total_cost
    /\ historic_prices(kb).count = 2

\* both update_rate_card calls have committed
C26_BothCommitted == \A s \in Sessions : tx[s].pc = "committed"

\* C26: after two concurrent update_rate_card calls with the payloads A and
\* B have completed, the stored card is the card of one of the two
\* payloads, never a mixture.
C26_OnePayloadWins ==
    C26_BothCommitted =>
        \/ rows = card_of(tx["A"].payload)
        \/ rows = card_of(tx["B"].payload)

\* both calls have committed and the table holds the Project Manager of one
\* payload and the Software Developer of the other
C26_Witness ==
    /\ C26_BothCommitted
    /\ tx["A"].payload = << [ role |-> "Project Manager", rate |-> 100 ] >>
    /\ tx["B"].payload = << [ role |-> "Software Developer", rate |-> 70 ] >>
    /\ rows = ("Project Manager" :> 100) @@ ("Software Developer" :> 70)

=============================================================================
